---- MODULE Spec2Model ----
(***************************************************************************)
(* URL shortener: the Url document model (server/models/Url.js), the code  *)
(* generator (server/utils/urlUtils.js), the /api/urls handlers            *)
(* (server/routes/urls.js) and the redirect handler (routes/redirect).     *)
(*                                                                         *)
(* Strings are sequences of one-character strings (codes) or of tokens     *)
(* (URLs); optional values (null / undefined in the code) are <<>> when    *)
(* absent and <<v>> when present; dates are integers on the clock `now`,   *)
(* which counts hours.  The createdAt and updatedAt stamps of a document   *)
(* are not kept: documents are created one at a time, so that the order    *)
(* of createdAt is the order of _id.                                       *)
(***************************************************************************)
EXTENDS Integers, Sequences, FiniteSets, TLC

VARIABLES
    store,      \* the Url collection: document _id -> document
    nextId,     \* the next fresh _id
    now,        \* the clock read by new Date()
    pc,         \* per request slot: where its handler stands
    loc,        \* per request slot: the handler's local variables
    resp,       \* per request slot: the last response sent
    shortened,  \* history: _id -> the body and the code of the 201 response that created it
    arrivals,   \* history: _id -> every click entry ever saved for it, in save order
    gen,        \* the generator loop of urlUtils.js (specification SpecGen)
    probe,      \* a document value and the verdicts of its methods (specification SpecAcc)
    auth        \* the browser: AuthProvider state, localStorage, requests in flight (SpecAuth)

vars == <<store, nextId, now, pc, loc, resp, shortened, arrivals, gen, probe, auth>>

-----------------------------------------------------------------------------
(* Bounds of the model *)

MaxDocs == 2          \* documents ever created in a run
MaxTime == 1          \* the clock runs 0..MaxTime
MaxClicks == 2        \* clicks saved in a run of Spec and SpecConc
MaxInFlight == 2      \* concurrent requests in SpecConc and SpecHist
MaxGenLen == 2        \* generator lengths 0..MaxGenLen in SpecGen
RandomScale == 124    \* Math.random() is k / RandomScale, k in 0..RandomScale-1
HistOver == 2         \* SpecHist saves up to HistoryCap + HistOver clicks
MaxProbe == 2         \* SpecAcc probes numbers -1..MaxProbe and dates 0..MaxProbe
MaxListed == 4        \* SpecPage lists a collection of 0..MaxListed documents
MaxPage == 3          \* SpecPage asks for the pages 1..MaxPage
MaxLimit == 2         \* SpecPage asks for 1..MaxLimit documents a page
MaxLogins == 2        \* SpecAuth sends up to MaxLogins login and register requests

(* Constants of the program *)

HistoryCap == 100     \* Url.js:131
maxAttempts == 10     \* urls.js:78
DefaultLength == 6    \* urlUtils.js:4
UrlMaxLength == 2048  \* urls.js:16
CodeMinLength == 3    \* urls.js:20
CodeMaxLength == 20   \* urls.js:20
Letters == 26                \* urlUtils.js:5, the letters A..Z of chars
TitleMaxLength == 200        \* urls.js:236
DescriptionMaxLength == 500  \* urls.js:240
RecentDays == 30      \* routes/stats.js:30
RealtimeHours == 24   \* routes/stats.js:234
RecentLimit == 50     \* routes/stats.js:183

-----------------------------------------------------------------------------
(* Optional values *)

Absent == <<>>

Some(v) == <<v>>

\* JavaScript truthiness of an optional number: null, undefined and 0 are falsy
TruthyNum(o) == o # Absent /\ o[1] # 0

\* JavaScript truthiness of an optional object (a Date is always truthy)
TruthyObj(o) == o # Absent

-----------------------------------------------------------------------------
(* server/utils/urlUtils.js: the code generator *)

chars ==
    << "A","B","C","D","E","F","G","H","I","J","K","L","M",
       "N","O","P","Q","R","S","T","U","V","W","X","Y","Z",
       "a","b","c","d","e","f","g","h","i","j","k","l","m",
       "n","o","p","q","r","s","t","u","v","w","x","y","z",
       "0","1","2","3","4","5","6","7","8","9" >>

\* chars.charAt(i), 0-based: the empty string outside the string
CharAt(i) == IF i >= 0 /\ i < Len(chars) THEN <<chars[i + 1]>> ELSE <<>>

\* chars[i], 0-based: undefined outside the string, which += appends as text
CharIndex(i) == IF i >= 0 /\ i < Len(chars) THEN <<chars[i + 1]>> ELSE <<"undefined">>

\* mutant: Math.round in place of Math.floor
PlainChar_Round(k) == CharAt((2 * k * Len(chars) + RandomScale) \div (2 * RandomScale))

\* chars.charAt(Math.floor(Math.random() * chars.length)), Math.random() = k / RandomScale
PlainChar(k) == CharAt((k * Len(chars)) \div RandomScale)

\* chars[bytes[i] % chars.length]
SecureChar(byte) == CharIndex(byte % Len(chars))

RECURSIVE generateShortCode(_, _)
\* the loop of generateShortCode: rnd[i] is the i-th Math.random() draw
generateShortCode(length, rnd) ==
    IF length <= 0 THEN <<>>
    ELSE generateShortCode(length - 1, rnd) \o PlainChar(rnd[length])

RECURSIVE generateSecureShortCode(_, _)
\* the loop of generateSecureShortCode: bytes = crypto.randomBytes(length)
generateSecureShortCode(length, bytes) ==
    IF length <= 0 THEN <<>>
    ELSE generateSecureShortCode(length - 1, bytes) \o SecureChar(bytes[length])

Bytes == 0..255

RandomDraws == 0..(RandomScale - 1)

-----------------------------------------------------------------------------
(* Strings: URLs are token sequences, " " is whitespace *)

RECURSIVE TrimLeft(_)
TrimLeft(s) == IF s # <<>> /\ Head(s) = " " THEN TrimLeft(Tail(s)) ELSE s

RECURSIVE TrimRight(_)
TrimRight(s) ==
    IF s # <<>> /\ s[Len(s)] = " " THEN TrimRight(SubSeq(s, 1, Len(s) - 1)) ELSE s

\* mongoose `trim: true` on a String path
Trim(s) == TrimRight(TrimLeft(s))

Schemes == {"http:", "https:", "ftp:"}

HasWhitespace(s) == \E i \in 1..Len(s) : s[i] = " "

\* mutant: isURL that lets whitespace through
IsURL_AllowsWhitespace(s) ==
    /\ s # <<>>
    /\ (s[1] \in Schemes => s[1] \in {"http:", "https:"})
    /\ Len(s) <= UrlMaxLength

\* body('originalUrl').isURL({ protocols: ['http', 'https'] }).isLength({ max: 2048 }):
\* no whitespace anywhere, a scheme is optional but must be http or https
IsURL(s) ==
    /\ s # <<>>
    /\ ~HasWhitespace(s)
    /\ (s[1] \in Schemes => s[1] \in {"http:", "https:"})
    /\ Len(s) <= UrlMaxLength

\* isValidUrl: new URL(string) parses (a scheme is required, surrounding
\* whitespace is stripped) and the protocol is http: or https:
isValidUrl(s) ==
    LET t == Trim(s) IN t # <<>> /\ t[1] \in {"http:", "https:"}

CodeChars == {chars[i] : i \in 1..Len(chars)} \cup {"_", "-"}

\* body('customCode').isLength({ min: 3, max: 20 }).matches(/^[a-zA-Z0-9_-]+$/)
IsValidCustomCode(c) ==
    /\ Len(c) >= CodeMinLength
    /\ Len(c) <= CodeMaxLength
    /\ \A i \in 1..Len(c) : c[i] \in CodeChars

-----------------------------------------------------------------------------
(* server/models/Url.js: the document methods *)

\* isExpired(): if (!this.expiresAt) return false; return new Date() > this.expiresAt
isExpired(url, t) ==
    IF ~TruthyObj(url.expiresAt) THEN FALSE ELSE t > url.expiresAt[1]

\* mutant: the limit compared with > instead of >=
hasReachedMaxClicks_Strict(url) ==
    IF ~TruthyNum(url.maxClicks) THEN FALSE ELSE url.clicks > url.maxClicks[1]

\* hasReachedMaxClicks(): if (!this.maxClicks) return false; return clicks >= maxClicks
hasReachedMaxClicks(url) ==
    IF ~TruthyNum(url.maxClicks) THEN FALSE ELSE url.clicks >= url.maxClicks[1]

\* mutant: accessibility that forgets the expiry
isAccessible_NoExpiry(url, t) == url.isActive /\ ~hasReachedMaxClicks(url)

\* isAccessible(): this.isActive && !this.isExpired() && !this.hasReachedMaxClicks()
isAccessible(url, t) ==
    url.isActive /\ ~isExpired(url, t) /\ ~hasReachedMaxClicks(url)

-----------------------------------------------------------------------------
(* The store: the Url collection with its unique index on shortCode *)

Procs == 1..MaxInFlight

\* Url.findOne({ shortCode }): the documents matching, at most one (unique index)
FindByShortCode(code) == {d \in DOMAIN store : store[d].shortCode = code}

\* mutant: the lookup by _id alone, without the userId filter
FindOwned_AnyOwner(id, user) == {d \in DOMAIN store : d = id}

\* Url.findOne({ _id: id, userId: user })
FindOwned(id, user) == {d \in DOMAIN store : d = id /\ store[d].userId = Some(user)}

\* mutant: a collection without the unique index
DuplicateKey_NoIndex(code) == FALSE

\* the unique index of urlSchema.shortCode (unique: true): an insert of a
\* code already stored fails with a duplicate key error
DuplicateKey(code) == FindByShortCode(code) # {}

\* new Url(urlData): schema defaults and setters applied to the request's data
NewUrl(id, body, user, shortCode) ==
    [ _id          |-> id,
      originalUrl  |-> Trim(body.originalUrl),
      shortCode    |-> Trim(shortCode),
      customCode   |-> TruthyObj(body.customCode),
      userId       |-> user,
      clicks       |-> 0,
      maxClicks    |-> body.maxClicks,
      expiresAt    |-> body.expiresAt,
      isActive     |-> TRUE,
      title        |-> IF body.title = Absent THEN Absent ELSE Some(Trim(body.title[1])),
      description  |-> IF body.description = Absent THEN Absent
                       ELSE Some(Trim(body.description[1])),
      tags         |-> IF body.tags = Absent THEN <<>> ELSE body.tags[1],
      clickHistory |-> <<>>,
      v            |-> 0 ]

\* the entry addClick pushes: country from the CF-IPCountry header or
\* 'Unknown', timestamp new Date()
ClickEntry(click, t) ==
    [ ip        |-> click.ip,
      country   |-> IF click.country = "" THEN "Unknown" ELSE click.country,
      timestamp |-> t ]

\* this.clickHistory.slice(-100)
SliceLast(h, n) == IF Len(h) > n THEN SubSeq(h, Len(h) - n + 1, Len(h)) ELSE h

\* mutant: the counter raised twice for one click
addClick_Twice(url, click, t) ==
    LET pushed == Append(url.clickHistory, ClickEntry(click, t)) IN
    [url EXCEPT !.clicks = url.clicks + 2,
                !.clickHistory = IF Len(pushed) > HistoryCap
                                 THEN SliceLast(pushed, HistoryCap)
                                 ELSE pushed]

\* addClick on the loaded document: clicks += 1, push, keep the last 100
addClick(url, click, t) ==
    LET pushed == Append(url.clickHistory, ClickEntry(click, t)) IN
    [url EXCEPT !.clicks = url.clicks + 1,
                !.clickHistory = IF Len(pushed) > HistoryCap
                                 THEN SliceLast(pushed, HistoryCap)
                                 ELSE pushed]

\* whether addClick reassigned clickHistory (the slice), so that save() sends
\* the whole array under the document's version instead of a $push
Reassigned(url) == Len(url.clickHistory) + 1 > HistoryCap

\* mutant: save() writes the whole loaded document back
SavedClick_WholeDocument(cur, url, click, t) ==
    [addClick(url, click, t) EXCEPT !.v = cur.v + 1]

\* mutant: the counter raised in the store ($inc) instead of written back
SavedClick_Inc(cur, url, click, t) ==
    LET mine == addClick(url, click, t) IN
    [cur EXCEPT !.clicks = cur.clicks + 1,
                !.clickHistory = IF Reassigned(url)
                                 THEN mine.clickHistory
                                 ELSE Append(cur.clickHistory, ClickEntry(click, t)),
                !.v = cur.v + 1]

\* this.save() of addClick as the store applies it to the stored document
\* cur: clicks is $set to the loaded value plus one; the history is $push-ed
\* onto the stored array, or $set whole when addClick reassigned it
SavedClick(cur, url, click, t) ==
    LET mine == addClick(url, click, t) IN
    [cur EXCEPT !.clicks = mine.clicks,
                !.clickHistory = IF Reassigned(url)
                                 THEN mine.clickHistory
                                 ELSE Append(cur.clickHistory, ClickEntry(click, t)),
                !.v = cur.v + 1]

\* save() fails: the document is gone, or the whole-array write meets a
\* version other than the one loaded
SaveFails(url) ==
    \/ url._id \notin DOMAIN store
    \/ Reassigned(url) /\ store[url._id].v # url.v

-----------------------------------------------------------------------------
(* Responses *)

NoResp ==
    [ op |-> "none", status |-> 0, message |-> "", location |-> <<>>,
      code |-> <<>>, body |-> <<>>, url |-> Absent, at |-> 0,
      checked |-> 0, hits |-> 0, user |-> Absent, deleted |-> 0, data |-> <<>>,
      id |-> 0 ]

Idle == [op |-> "none"]

\* res.status(s).json({ message: m })
Reply(p, op, s, m) == [NoResp EXCEPT !.op = op, !.status = s, !.message = m, !.at = now]

Respond(p, r) ==
    /\ resp' = [resp EXCEPT ![p] = r]
    /\ pc' = [pc EXCEPT ![p] = "done"]
    /\ loc' = [loc EXCEPT ![p] = Idle]

\* the response is delivered and the slot takes the next request
Finish(p) ==
    /\ pc[p] = "done"
    /\ pc' = [pc EXCEPT ![p] = "idle"]
    /\ resp' = [resp EXCEPT ![p] = NoResp]
    /\ UNCHANGED <<store, nextId, now, loc, shortened, arrivals, gen, probe, auth>>

Goto(p, label, l) ==
    /\ pc' = [pc EXCEPT ![p] = label]
    /\ loc' = [loc EXCEPT ![p] = l]
    /\ resp' = [resp EXCEPT ![p] = NoResp]

-----------------------------------------------------------------------------
(* POST /api/urls/shorten *)

\* validationResult(req) of the shorten validators
ShortenValid(body) ==
    /\ IsURL(body.originalUrl)
    /\ (body.customCode # Absent => IsValidCustomCode(body.customCode[1]))
    /\ (body.title # Absent => Len(body.title[1]) <= TitleMaxLength)
    /\ (body.description # Absent => Len(body.description[1]) <= DescriptionMaxLength)
    /\ (body.maxClicks # Absent => body.maxClicks[1] >= 1)

\* requests in a run are bounded: one document id per shorten request in flight
ShortenBudget ==
    nextId + Cardinality({q \in Procs : pc[q] \in {"generate", "checkCustom", "insert"}})
        <= MaxDocs

\* the handler up to its first store call: validation, isValidUrl, the
\* choice between a generated and a caller-supplied code
ShortenBegin(p, user, body) ==
    /\ pc[p] = "idle"
    /\ ShortenBudget
    /\ IF ~ShortenValid(body)
       THEN Respond(p, [Reply(p, "shorten", 400, "Validation failed") EXCEPT !.body = body])
       ELSE IF ~isValidUrl(body.originalUrl)
       THEN Respond(p, [Reply(p, "shorten", 400, "Invalid URL format") EXCEPT !.body = body])
       ELSE Goto(p,
                 IF body.customCode = Absent \/ body.customCode[1] = <<>>
                 THEN "generate" ELSE "checkCustom",
                 [ op |-> "shorten", body |-> body, user |-> user,
                   shortCode |-> IF body.customCode = Absent THEN <<>> ELSE body.customCode[1],
                   attempts |-> 0, checked |-> 0, hits |-> 0 ])
    /\ UNCHANGED <<store, nextId, now, shortened, arrivals, gen, probe, auth>>

\* mutant: the budget compared with > instead of >=
ShortenGenerate_OverBudget(p, rnd) ==
    /\ pc[p] = "generate"
    /\ LET l == loc[p]
           candidate == generateShortCode(DefaultLength, rnd)
           attempts == l.attempts + 1
           taken == FindByShortCode(candidate) # {}
       IN  IF attempts > maxAttempts
           THEN Respond(p, [Reply(p, "shorten", 500, "Unable to generate unique short code")
                               EXCEPT !.body = l.body, !.code = candidate,
                                      !.checked = l.checked, !.hits = l.hits])
           ELSE Goto(p, IF taken THEN "generate" ELSE "insert",
                     [l EXCEPT !.shortCode = candidate, !.attempts = attempts,
                               !.checked = l.checked + 1,
                               !.hits = l.hits + (IF taken THEN 1 ELSE 0)])
    /\ UNCHANGED <<store, nextId, now, shortened, arrivals, gen, probe, auth>>

\* one pass of the do-while: generate, count the attempt, give up at
\* maxAttempts, otherwise query the store for the candidate
ShortenGenerate(p, rnd) ==
    /\ pc[p] = "generate"
    /\ LET l == loc[p]
           candidate == generateShortCode(DefaultLength, rnd)
           attempts == l.attempts + 1
           taken == FindByShortCode(candidate) # {}
       IN  IF attempts >= maxAttempts
           THEN Respond(p, [Reply(p, "shorten", 500, "Unable to generate unique short code")
                               EXCEPT !.body = l.body, !.code = candidate,
                                      !.checked = l.checked, !.hits = l.hits])
           ELSE Goto(p, IF taken THEN "generate" ELSE "insert",
                     [l EXCEPT !.shortCode = candidate, !.attempts = attempts,
                               !.checked = l.checked + 1,
                               !.hits = l.hits + (IF taken THEN 1 ELSE 0)])
    /\ UNCHANGED <<store, nextId, now, shortened, arrivals, gen, probe, auth>>

\* mutant: the caller-supplied code goes to the insert unchecked
ShortenCheckCustom_NoCheck(p) ==
    /\ pc[p] = "checkCustom"
    /\ Goto(p, "insert", loc[p])
    /\ UNCHANGED <<store, nextId, now, shortened, arrivals, gen, probe, auth>>

\* the existence check of a caller-supplied code
ShortenCheckCustom(p) ==
    /\ pc[p] = "checkCustom"
    /\ LET l == loc[p] IN
       IF FindByShortCode(l.shortCode) # {}
       THEN Respond(p, [Reply(p, "shorten", 400, "Custom code is already taken")
                           EXCEPT !.body = l.body, !.code = l.shortCode])
       ELSE Goto(p, "insert", l)
    /\ UNCHANGED <<store, nextId, now, shortened, arrivals, gen, probe, auth>>

\* mutant: a refused insert that has already overwritten the stored record
ShortenInsert_Overwrite(p) ==
    /\ pc[p] = "insert"
    /\ LET l == loc[p]
           url == NewUrl(nextId, l.body, l.user, l.shortCode)
       IN  IF DuplicateKey(url.shortCode)
           THEN /\ Respond(p, [Reply(p, "shorten", 500, "Server error during URL shortening")
                                  EXCEPT !.body = l.body, !.code = l.shortCode])
                /\ store' = [d \in DOMAIN store |->
                                IF store[d].shortCode = url.shortCode
                                THEN [url EXCEPT !._id = d] ELSE store[d]]
                /\ UNCHANGED <<nextId, shortened, arrivals>>
           ELSE /\ store' = (nextId :> url) @@ store
                /\ nextId' = nextId + 1
                /\ shortened' = (nextId :> [body |-> l.body, code |-> url.shortCode]) @@ shortened
                /\ arrivals' = (nextId :> <<>>) @@ arrivals
                /\ Respond(p, [Reply(p, "shorten", 201, "URL shortened successfully")
                                  EXCEPT !.body = l.body, !.code = url.shortCode,
                                         !.url = Some(url),
                                         !.checked = l.checked, !.hits = l.hits])
    /\ UNCHANGED <<now, gen, probe, auth>>

\* mutant: a catch block that answers 201 when the insert was refused
ShortenInsert_AnswerCreated(p) ==
    /\ pc[p] = "insert"
    /\ LET l == loc[p]
           url == NewUrl(nextId, l.body, l.user, l.shortCode)
       IN  IF DuplicateKey(url.shortCode)
           THEN /\ Respond(p, [Reply(p, "shorten", 201, "URL shortened successfully")
                                  EXCEPT !.body = l.body, !.code = l.shortCode])
                /\ UNCHANGED <<store, nextId, shortened, arrivals>>
           ELSE /\ store' = (nextId :> url) @@ store
                /\ nextId' = nextId + 1
                /\ shortened' = (nextId :> [body |-> l.body, code |-> url.shortCode]) @@ shortened
                /\ arrivals' = (nextId :> <<>>) @@ arrivals
                /\ Respond(p, [Reply(p, "shorten", 201, "URL shortened successfully")
                                  EXCEPT !.body = l.body, !.code = url.shortCode,
                                         !.url = Some(url),
                                         !.checked = l.checked, !.hits = l.hits])
    /\ UNCHANGED <<now, gen, probe, auth>>

\* new Url(urlData), url.save() and the 201 response, or the catch block
\* when the unique index refuses the insert
ShortenInsert(p) ==
    /\ pc[p] = "insert"
    /\ LET l == loc[p]
           url == NewUrl(nextId, l.body, l.user, l.shortCode)
       IN  IF DuplicateKey(url.shortCode)
           THEN /\ Respond(p, [Reply(p, "shorten", 500, "Server error during URL shortening")
                                  EXCEPT !.body = l.body, !.code = l.shortCode])
                /\ UNCHANGED <<store, nextId, shortened, arrivals>>
           ELSE /\ store' = (nextId :> url) @@ store
                /\ nextId' = nextId + 1
                /\ shortened' = (nextId :> [body |-> l.body, code |-> url.shortCode]) @@ shortened
                /\ arrivals' = (nextId :> <<>>) @@ arrivals
                /\ Respond(p, [Reply(p, "shorten", 201, "URL shortened successfully")
                                  EXCEPT !.body = l.body, !.code = url.shortCode,
                                         !.url = Some(url),
                                         !.checked = l.checked, !.hits = l.hits])
    /\ UNCHANGED <<now, gen, probe, auth>>

-----------------------------------------------------------------------------
(* GET /:shortCode *)

\* mutant: the deactivation message tested first
GoneMessage_DeactivatedFirst(url, t) ==
    IF ~url.isActive THEN "This short URL has been deactivated"
    ELSE IF isExpired(url, t) THEN "This short URL has expired"
    ELSE IF hasReachedMaxClicks(url) THEN "This short URL has reached its maximum click limit"
    ELSE "This short URL is no longer active"

\* the 410 message, by the handler's if / else if chain
GoneMessage(url, t) ==
    IF isExpired(url, t) THEN "This short URL has expired"
    ELSE IF hasReachedMaxClicks(url) THEN "This short URL has reached its maximum click limit"
    ELSE IF ~url.isActive THEN "This short URL has been deactivated"
    ELSE "This short URL is no longer active"

\* the sum of the lengths of the sequences f[d], d in S
RECURSIVE SumLen(_, _)
SumLen(f, S) ==
    IF S = {} THEN 0
    ELSE LET d == CHOOSE x \in S : TRUE IN Len(f[d]) + SumLen(f, S \ {d})

\* clicks saved in a run are bounded
ClickBudget(bound) ==
    SumLen(arrivals, DOMAIN arrivals) + Cardinality({q \in Procs : pc[q] = "addClick"})
        < bound

\* mutant: the click counted before the accessibility test, so that a 410 counts too
RedirectFind_CountsGone(p, code, click, bound) ==
    /\ pc[p] = "idle"
    /\ LET found == FindByShortCode(code) IN
       IF found = {}
       THEN /\ Respond(p, [Reply(p, "redirect", 404, "Short URL not found") EXCEPT !.code = code])
            /\ store' = store
       ELSE LET url == store[CHOOSE d \in found : TRUE] IN
            IF ~isAccessible(url, now)
            THEN /\ Respond(p, [Reply(p, "redirect", 410, GoneMessage(url, now))
                                   EXCEPT !.code = code, !.url = Some(url)])
                 /\ store' = [store EXCEPT ![url._id].clicks = @ + 1]
            ELSE /\ ClickBudget(bound)
                 /\ Goto(p, "addClick",
                         [op |-> "redirect", code |-> code, url |-> url, click |-> click,
                          at |-> now])
                 /\ store' = store
    /\ UNCHANGED <<nextId, now, shortened, arrivals, gen, probe, auth>>

\* findOne, the 404 and 410 answers, the click data of an accessible record
RedirectFind(p, code, click, bound) ==
    /\ pc[p] = "idle"
    /\ LET found == FindByShortCode(code) IN
       IF found = {}
       THEN Respond(p, [Reply(p, "redirect", 404, "Short URL not found") EXCEPT !.code = code])
       ELSE LET url == store[CHOOSE d \in found : TRUE] IN
            IF ~isAccessible(url, now)
            THEN Respond(p, [Reply(p, "redirect", 410, GoneMessage(url, now))
                                EXCEPT !.code = code, !.url = Some(url)])
            ELSE /\ ClickBudget(bound)
                 /\ Goto(p, "addClick",
                         [op |-> "redirect", code |-> code, url |-> url, click |-> click,
                          at |-> now])
    /\ UNCHANGED <<store, nextId, now, shortened, arrivals, gen, probe, auth>>

\* mutant: a save that inserts the loaded document when it is no longer stored
RedirectSave_Upsert(p) ==
    /\ pc[p] = "addClick"
    /\ LET l == loc[p]
           url == l.url
       IN  /\ IF url._id \in DOMAIN store
              THEN /\ store' = [store EXCEPT ![url._id] = SavedClick(@, url, l.click, now)]
                   /\ arrivals' = [arrivals EXCEPT ![url._id] = Append(@, ClickEntry(l.click, now))]
                   /\ shortened' = shortened
              ELSE /\ store' = (url._id :> addClick(url, l.click, now)) @@ store
                   /\ arrivals' = (url._id :> <<ClickEntry(l.click, now)>>) @@ arrivals
                   /\ shortened' = (url._id :> [body |-> <<>>, code |-> url.shortCode]) @@ shortened
           /\ Respond(p, [Reply(p, "redirect", 302, "")
                             EXCEPT !.code = l.code, !.url = Some(url), !.at = l.at,
                                    !.location = url.originalUrl])
    /\ UNCHANGED <<nextId, now, gen, probe, auth>>

\* mutant: the redirect sent whether or not the save succeeded
RedirectSave_RedirectAnyway(p) ==
    /\ pc[p] = "addClick"
    /\ LET l == loc[p]
           url == l.url
       IN  /\ IF SaveFails(url)
              THEN UNCHANGED <<store, arrivals>>
              ELSE /\ store' = [store EXCEPT ![url._id] = SavedClick(@, url, l.click, now)]
                   /\ arrivals' = [arrivals EXCEPT ![url._id] = Append(@, ClickEntry(l.click, now))]
           /\ Respond(p, [Reply(p, "redirect", 302, "")
                             EXCEPT !.code = l.code, !.url = Some(url), !.at = l.at,
                                    !.location = url.originalUrl])
    /\ UNCHANGED <<nextId, now, shortened, gen, probe, auth>>

\* url.addClick(clickData) with its save, then res.redirect(302, url.originalUrl);
\* a failed save lands in the catch block
RedirectSave(p) ==
    /\ pc[p] = "addClick"
    /\ LET l == loc[p]
           url == l.url
       IN  IF SaveFails(url)
           THEN /\ Respond(p, [Reply(p, "redirect", 500, "Server error during redirection")
                                  EXCEPT !.code = l.code, !.url = Some(url), !.at = l.at])
                /\ UNCHANGED <<store, arrivals>>
           ELSE /\ store' = [store EXCEPT ![url._id] = SavedClick(@, url, l.click, now)]
                /\ arrivals' = [arrivals EXCEPT ![url._id] = Append(@, ClickEntry(l.click, now))]
                /\ Respond(p, [Reply(p, "redirect", 302, "")
                                  EXCEPT !.code = l.code, !.url = Some(url), !.at = l.at,
                                         !.location = url.originalUrl])
    /\ UNCHANGED <<nextId, now, shortened, gen, probe, auth>>

-----------------------------------------------------------------------------
(* PUT /api/urls/:id, DELETE /api/urls/:id *)

\* validationResult(req) of the update validators
UpdateValid(body) ==
    /\ (body.title # Absent => Len(body.title[1]) <= TitleMaxLength)
    /\ (body.description # Absent => Len(body.description[1]) <= DescriptionMaxLength)
    /\ (body.maxClicks # Absent => body.maxClicks[1] >= 1)

\* mutant: the update replaces the settings, so that a field the request
\* does not hold falls back to its default
Updated_Replace(url, body) ==
    [url EXCEPT !.isActive = IF body.isActive = Absent THEN TRUE ELSE body.isActive[1],
                !.maxClicks = body.maxClicks,
                !.expiresAt = body.expiresAt,
                !.title = IF body.title = Absent THEN Absent ELSE Some(Trim(body.title[1])),
                !.description = IF body.description = Absent THEN Absent
                                ELSE Some(Trim(body.description[1])),
                !.tags = IF body.tags = Absent THEN <<>> ELSE body.tags[1]]

\* updateData applied by findByIdAndUpdate: only the fields the request
\* holds (strings trimmed by the schema)
Updated(url, body) ==
    [url EXCEPT !.isActive = IF body.isActive = Absent THEN @ ELSE body.isActive[1],
                !.maxClicks = IF body.maxClicks = Absent THEN @ ELSE body.maxClicks,
                !.expiresAt = IF body.expiresAt = Absent THEN @ ELSE body.expiresAt,
                !.title = IF body.title = Absent THEN @ ELSE Some(Trim(body.title[1])),
                !.description = IF body.description = Absent THEN @
                                ELSE Some(Trim(body.description[1])),
                !.tags = IF body.tags = Absent THEN @ ELSE body.tags[1]]

\* GET /:id: findOne({ _id, userId }) and the record found
GetOne(p, user, id) ==
    /\ pc[p] = "idle"
    /\ IF FindOwned(id, user) = {}
       THEN Respond(p, [Reply(p, "get", 404, "URL not found")
                          EXCEPT !.user = Some(user), !.id = id])
       ELSE Respond(p, [Reply(p, "get", 200, "")
                          EXCEPT !.user = Some(user), !.id = id, !.url = Some(store[id])])
    /\ UNCHANGED <<store, nextId, now, shortened, arrivals, gen, probe, auth>>

\* validation and the ownership lookup findOne({ _id, userId })
UpdateFind(p, user, id, body) ==
    /\ pc[p] = "idle"
    /\ IF ~UpdateValid(body)
       THEN Respond(p, [Reply(p, "update", 400, "Validation failed")
                          EXCEPT !.user = Some(user), !.id = id])
       ELSE IF FindOwned(id, user) = {}
       THEN Respond(p, [Reply(p, "update", 404, "URL not found")
                          EXCEPT !.user = Some(user), !.id = id])
       ELSE Goto(p, "update", [op |-> "update", id |-> id, body |-> body, user |-> user])
    /\ UNCHANGED <<store, nextId, now, shortened, arrivals, gen, probe, auth>>

\* findByIdAndUpdate(req.params.id, updateData, { new: true }) and the 200 response
UpdateWrite(p) ==
    /\ pc[p] = "update"
    /\ LET l == loc[p] IN
       IF l.id \in DOMAIN store
       THEN /\ store' = [store EXCEPT ![l.id] = Updated(@, l.body)]
            /\ Respond(p, [Reply(p, "update", 200, "URL updated successfully")
                              EXCEPT !.url = Some(store'[l.id]),
                                     !.user = Some(l.user), !.id = l.id])
       ELSE /\ store' = store
            /\ Respond(p, [Reply(p, "update", 200, "URL updated successfully")
                              EXCEPT !.user = Some(l.user), !.id = l.id])
    /\ UNCHANGED <<nextId, now, shortened, arrivals, gen, probe, auth>>

\* the collection f without document id
Without(f, id) == [d \in DOMAIN f \ {id} |-> f[d]]

\* findOneAndDelete({ _id, userId })
Delete(p, user, id) ==
    /\ pc[p] = "idle"
    /\ IF FindOwned(id, user) = {}
       THEN /\ UNCHANGED <<store, shortened, arrivals>>
            /\ Respond(p, [Reply(p, "delete", 404, "URL not found")
                              EXCEPT !.user = Some(user), !.id = id])
       ELSE /\ store' = Without(store, id)
            /\ shortened' = Without(shortened, id)
            /\ arrivals' = Without(arrivals, id)
            /\ Respond(p, [Reply(p, "delete", 200, "URL deleted successfully")
                              EXCEPT !.url = Some(store[id]), !.user = Some(user), !.id = id])
    /\ UNCHANGED <<nextId, now, gen, probe, auth>>

\* the collection f without the documents of S
WithoutAll(f, S) == [d \in DOMAIN f \ S |-> f[d]]

\* DELETE /bulk/delete: urlIds must be a non-empty array; deleteMany({ _id:
\* { $in: urlIds }, userId }) and the count of the documents deleted
BulkDelete(p, user, urlIds) ==
    /\ pc[p] = "idle"
    /\ IF Len(urlIds) < 1
       THEN /\ UNCHANGED <<store, shortened, arrivals>>
            /\ Respond(p, [Reply(p, "bulkDelete", 400, "Validation failed")
                              EXCEPT !.user = Some(user)])
       ELSE LET gone == {d \in DOMAIN store :
                           /\ \E i \in 1..Len(urlIds) : urlIds[i] = d
                           /\ store[d].userId = Some(user)}
            IN  /\ store' = WithoutAll(store, gone)
                /\ shortened' = WithoutAll(shortened, gone)
                /\ arrivals' = WithoutAll(arrivals, gone)
                /\ Respond(p, [Reply(p, "bulkDelete", 200, "URLs deleted successfully")
                                  EXCEPT !.user = Some(user), !.deleted = Cardinality(gone)])
    /\ UNCHANGED <<nextId, now, gen, probe, auth>>

\* mutant: a background sweep that removes the expired records as time passes
Tick_Sweep ==
    /\ now < MaxTime
    /\ now' = now + 1
    /\ LET gone == {d \in DOMAIN store : isExpired(store[d], now + 1)} IN
       /\ store' = WithoutAll(store, gone)
       /\ shortened' = WithoutAll(shortened, gone)
       /\ arrivals' = WithoutAll(arrivals, gone)
    /\ UNCHANGED <<nextId, pc, loc, resp, gen, probe, auth>>

-----------------------------------------------------------------------------
(* GET /api/stats/overview, /url/:urlId, /realtime and GET /:shortCode/info *)

\* the documents of a user
OwnedBy(user) == {d \in DOMAIN store : store[d].userId = Some(user)}

\* $group: { _id: null, total: { $sum: '$clicks' } } over the documents of S
RECURSIVE SumClicks(_)
SumClicks(S) ==
    IF S = {} THEN 0
    ELSE LET d == CHOOSE x \in S : TRUE IN store[d].clicks + SumClicks(S \ {d})

\* $unwind: '$clickHistory' of one document: its entries from time `since` on
EntriesSince(h, since) == {i \in 1..Len(h) : h[i].timestamp >= since}

\* $unwind, $match on the timestamp and $count over the documents of S
RECURSIVE CountSince(_, _)
CountSince(S, since) ==
    IF S = {} THEN 0
    ELSE LET d == CHOOSE x \in S : TRUE IN
         Cardinality(EntriesSince(store[d].clickHistory, since)) + CountSince(S \ {d}, since)

\* mutant: a group counts its distinct entries
GroupByCountry_Distinct(h) ==
    [c \in {h[i].country : i \in 1..Len(h)} |->
        Cardinality({h[i] : i \in {j \in 1..Len(h) : h[j].country = c}})]

\* $unwind and $group: { _id: '$clickHistory.country', clicks: { $sum: 1 } }
\* over one history: country -> number of entries
GroupByCountry(h) ==
    [c \in {h[i].country : i \in 1..Len(h)} |->
        Cardinality({i \in 1..Len(h) : h[i].country = c})]

\* the clicks of the groups S of the grouped counts f, added up
RECURSIVE SumGroups(_, _)
SumGroups(f, S) ==
    IF S = {} THEN 0
    ELSE LET c == CHOOSE x \in S : TRUE IN f[c] + SumGroups(f, S \ {c})

\* clickHistory.sort((a, b) => new Date(b.timestamp) - new Date(a.timestamp)):
\* entry i takes the place after the newer entries and the earlier entries of
\* its own timestamp (Array.prototype.sort is stable)
SortDesc(h) ==
    LET place == [i \in 1..Len(h) |->
                    1 + Cardinality({j \in 1..Len(h) :
                                       \/ h[j].timestamp > h[i].timestamp
                                       \/ h[j].timestamp = h[i].timestamp /\ j < i})]
    IN  [k \in 1..Len(h) |-> h[CHOOSE i \in 1..Len(h) : place[i] = k]]

\* .slice(0, n)
SliceFirst(h, n) == IF Len(h) > n THEN SubSeq(h, 1, n) ELSE h

\* url.select('-clickHistory'): the document without its click history
WithoutHistory(url) == [f \in DOMAIN url \ {"clickHistory"} |-> url[f]]

\* the lower-case letter of an upper-case letter of chars
Lower(c) ==
    IF \E i \in 1..Letters : chars[i] = c
    THEN chars[(CHOOSE i \in 1..Letters : chars[i] = c) + Letters]
    ELSE c

\* { $regex: search, $options: 'i' } on a string of one-letter tokens
RegexFinds(str, search) == \E i \in 1..Len(str) : Lower(str[i]) = Lower(search)

\* the query of GET /my-urls: the requester's documents, and with a search
\* term those whose originalUrl, shortCode, title or description holds it
MyUrlsQuery(user, search) ==
    { d \in OwnedBy(user) :
        \/ search = Absent
        \/ search[1] = ""
        \/ RegexFinds(store[d].originalUrl, search[1])
        \/ RegexFinds(store[d].shortCode, search[1])
        \/ store[d].title # Absent /\ RegexFinds(store[d].title[1], search[1])
        \/ store[d].description # Absent /\ RegexFinds(store[d].description[1], search[1]) }

\* the value .sort() compares: createdAt orders as _id does
SortKey(url, sortBy) == IF sortBy = "clicks" THEN url.clicks ELSE url._id

\* sortOptions[sortBy] = sortOrder === 'desc' ? -1 : 1
Before(a, b, sortBy, sortOrder) ==
    IF sortOrder = "desc"
    THEN SortKey(a, sortBy) > SortKey(b, sortBy)
    ELSE SortKey(a, sortBy) < SortKey(b, sortBy)

RECURSIVE InsertSorted(_, _, _, _)
InsertSorted(h, url, sortBy, sortOrder) ==
    IF h = <<>> THEN <<url>>
    ELSE IF Before(url, Head(h), sortBy, sortOrder) THEN <<url>> \o h
    ELSE <<Head(h)>> \o InsertSorted(Tail(h), url, sortBy, sortOrder)

\* find(query).sort(sortOptions): the documents of S in sort order, equal
\* keys in the order of the collection
RECURSIVE FindSorted(_, _, _)
FindSorted(S, sortBy, sortOrder) ==
    IF S = {} THEN <<>>
    ELSE LET d == CHOOSE x \in S : \A y \in S : y <= x IN
         InsertSorted(FindSorted(S \ {d}, sortBy, sortOrder), store[d], sortBy, sortOrder)

\* .skip(k)
Skip(h, k) == IF k >= Len(h) THEN <<>> ELSE SubSeq(h, k + 1, Len(h))

\* Math.ceil(a / b) for a >= 0 and b >= 1
Ceil(a, b) == IF a % b = 0 THEN a \div b ELSE (a \div b) + 1

\* mutant: the documents of the page after the one asked for
MyUrls_SkipPage(p, user, page, limit, search, sortBy, sortOrder) ==
    /\ pc[p] = "idle"
    /\ LET query == MyUrlsQuery(user, search)
           found == FindSorted(query, sortBy, sortOrder)
           urls == SliceFirst(Skip(found, page * limit), limit)
           total == Cardinality(query)
       IN  Respond(p, [Reply(p, "myUrls", 200, "") EXCEPT
               !.user = Some(user),
               !.data = [ urls  |-> [i \in 1..Len(urls) |-> WithoutHistory(urls[i])],
                          pagination |->
                              [ currentPage |-> page,
                                totalPages  |-> Ceil(total, limit),
                                totalUrls   |-> total,
                                hasNext     |-> page * limit < total,
                                hasPrev     |-> page > 1 ],
                          page |-> page, limit |-> limit, search |-> search,
                          sortBy |-> sortBy, sortOrder |-> sortOrder ]])
    /\ UNCHANGED <<store, nextId, now, shortened, arrivals, gen, probe, auth>>

\* GET /my-urls: find, sort, skip, limit without the click histories,
\* countDocuments and the pagination block
MyUrls(p, user, page, limit, search, sortBy, sortOrder) ==
    /\ pc[p] = "idle"
    /\ LET query == MyUrlsQuery(user, search)
           found == FindSorted(query, sortBy, sortOrder)
           urls == SliceFirst(Skip(found, (page - 1) * limit), limit * 1)
           total == Cardinality(query)
       IN  Respond(p, [Reply(p, "myUrls", 200, "") EXCEPT
               !.user = Some(user),
               !.data = [ urls  |-> [i \in 1..Len(urls) |-> WithoutHistory(urls[i])],
                          pagination |->
                              [ currentPage |-> page,
                                totalPages  |-> Ceil(total, limit),
                                totalUrls   |-> total,
                                hasNext     |-> page * limit < total,
                                hasPrev     |-> page > 1 ],
                          page |-> page, limit |-> limit, search |-> search,
                          sortBy |-> sortBy, sortOrder |-> sortOrder ]])
    /\ UNCHANGED <<store, nextId, now, shortened, arrivals, gen, probe, auth>>

\* GET /overview: counts and sums over the requester's documents
StatsOverview(p, user) ==
    /\ pc[p] = "idle"
    /\ LET mine == OwnedBy(user) IN
       Respond(p, [Reply(p, "statsOverview", 200, "") EXCEPT
           !.user = Some(user),
           !.data = [ totalUrls    |-> Cardinality(mine),
                      activeUrls   |-> Cardinality({d \in mine : store[d].isActive}),
                      expiredUrls  |-> Cardinality({d \in mine :
                                          /\ store[d].expiresAt # Absent
                                          /\ store[d].expiresAt[1] < now}),
                      totalClicks  |-> SumClicks(mine),
                      recentClicks |-> CountSince(mine, now - RecentDays * 24) ]])
    /\ UNCHANGED <<store, nextId, now, shortened, arrivals, gen, probe, auth>>

\* mutant: the history sorted for the response is saved with the document
StatsUrl_SavesSorted(p, user, id) ==
    /\ pc[p] = "idle"
    /\ IF FindOwned(id, user) = {}
       THEN /\ Respond(p, [Reply(p, "statsUrl", 404, "URL not found") EXCEPT !.user = Some(user)])
            /\ store' = store
       ELSE LET url == store[id]
                sorted == SortDesc(url.clickHistory)
            IN  /\ Respond(p, [Reply(p, "statsUrl", 200, "") EXCEPT
                       !.user = Some(user),
                       !.url = Some(url),
                       !.data = [ clicks          |-> url.clicks,
                                  clicksByCountry |-> GroupByCountry(url.clickHistory),
                                  recentClicks    |-> SliceFirst(sorted, RecentLimit) ]])
                /\ store' = [store EXCEPT ![id].clickHistory = sorted]
    /\ UNCHANGED <<nextId, now, shortened, arrivals, gen, probe, auth>>

\* GET /url/:urlId: the ownership lookup, the grouped counts of the stored
\* history, and the 50 most recent entries of the loaded copy, sorted in place
StatsUrl(p, user, id) ==
    /\ pc[p] = "idle"
    /\ IF FindOwned(id, user) = {}
       THEN Respond(p, [Reply(p, "statsUrl", 404, "URL not found") EXCEPT !.user = Some(user)])
       ELSE LET url == store[id]
                sorted == SortDesc(url.clickHistory)
            IN  Respond(p, [Reply(p, "statsUrl", 200, "") EXCEPT
                    !.user = Some(user),
                    !.url = Some(url),
                    !.data = [ clicks          |-> url.clicks,
                               clicksByCountry |-> GroupByCountry(url.clickHistory),
                               recentClicks    |-> SliceFirst(sorted, RecentLimit) ]])
    /\ UNCHANGED <<store, nextId, now, shortened, arrivals, gen, probe, auth>>

\* GET /realtime: the clicks of the last 24 hours over the requester's documents
StatsRealtime(p, user) ==
    /\ pc[p] = "idle"
    /\ LET mine == OwnedBy(user)
           since == now - RealtimeHours
       IN  Respond(p, [Reply(p, "statsRealtime", 200, "") EXCEPT
               !.user = Some(user),
               !.data = [ recentClicks |-> CountSince(mine, since),
                          topUrls      |-> {d \in mine :
                                              EntriesSince(store[d].clickHistory, since) # {}} ]])
    /\ UNCHANGED <<store, nextId, now, shortened, arrivals, gen, probe, auth>>

\* mutant: isAccessible reported from the isActive flag alone
Info_ActiveOnly(p, code) ==
    /\ pc[p] = "idle"
    /\ LET found == FindByShortCode(code) IN
       IF found = {}
       THEN Respond(p, [Reply(p, "info", 404, "Short URL not found") EXCEPT !.code = code])
       ELSE LET url == WithoutHistory(store[CHOOSE d \in found : TRUE]) IN
            Respond(p, [Reply(p, "info", 200, "") EXCEPT
                !.code = code,
                !.data = [ url          |-> url,
                           clicks       |-> url.clicks,
                           isActive     |-> url.isActive,
                           isAccessible |-> url.isActive ]])
    /\ UNCHANGED <<store, nextId, now, shortened, arrivals, gen, probe, auth>>

\* GET /:shortCode/info: findOne without the click history, the fields of
\* the record and isAccessible() of the loaded copy
Info(p, code) ==
    /\ pc[p] = "idle"
    /\ LET found == FindByShortCode(code) IN
       IF found = {}
       THEN Respond(p, [Reply(p, "info", 404, "Short URL not found") EXCEPT !.code = code])
       ELSE LET url == WithoutHistory(store[CHOOSE d \in found : TRUE]) IN
            Respond(p, [Reply(p, "info", 200, "") EXCEPT
                !.code = code,
                !.data = [ url          |-> url,
                           clicks       |-> url.clicks,
                           isActive     |-> url.isActive,
                           isAccessible |-> isAccessible(url, now) ]])
    /\ UNCHANGED <<store, nextId, now, shortened, arrivals, gen, probe, auth>>

\* time passes
Tick ==
    /\ now < MaxTime
    /\ now' = now + 1
    /\ UNCHANGED <<store, nextId, pc, loc, resp, shortened, arrivals, gen, probe, auth>>

-----------------------------------------------------------------------------
(* Requests of the runs *)

Users == {"u1", "u2"}

UrlA == <<"https:", "a">>

UrlB == <<"http:", "b">>

UrlBlank == <<" ", "http:", "a">>

UrlFtp == <<"ftp:", "a">>

UrlBare == <<"a">>

\* the Math.random() draws of one generateShortCode() call: all lowest or all highest
DrawSeqs == {[i \in 1..DefaultLength |-> k] : k \in {0, RandomScale - 1}}

CodeAAAAAA == <<"A", "A", "A", "A", "A", "A">>

CodeShort == <<"a", "b">>

Body(u, c, m, e) ==
    [ originalUrl |-> u, customCode |-> c, maxClicks |-> m, expiresAt |-> e,
      title |-> Absent, description |-> Absent, tags |-> Absent ]

ShortenRequests ==
    { [user |-> Absent,     body |-> Body(UrlA, Absent, Absent, Absent)],
      [user |-> Some("u1"), body |-> Body(UrlB, Some(CodeAAAAAA), Some(1), Some(0))],
      [user |-> Some("u1"), body |-> Body(UrlB, Absent, Some(2), Absent)],
      [user |-> Absent,     body |-> Body(UrlA, Absent, Some(1), Absent)],
      [user |-> Absent,     body |-> Body(UrlBlank, Absent, Absent, Absent)],
      [user |-> Absent,     body |-> Body(UrlFtp, Absent, Absent, Absent)],
      [user |-> Absent,     body |-> Body(UrlBare, Absent, Absent, Absent)],
      [user |-> Absent,     body |-> Body(UrlA, Some(CodeShort), Absent, Absent)],
      [user |-> Absent,     body |-> Body(UrlA, Absent, Some(0), Absent)] }

RedirectCodes ==
    {generateShortCode(DefaultLength, rnd) : rnd \in DrawSeqs} \cup {CodeAAAAAA}

ClickInputs == {[ip |-> "10.0.0.1", country |-> ""]}

Patch(a, m, e) ==
    [ isActive |-> a, maxClicks |-> m, expiresAt |-> e,
      title |-> Absent, description |-> Absent, tags |-> Absent ]

UpdateRequests ==
    { Patch(Some(FALSE), Absent, Absent),
      Patch(Some(TRUE), Absent, Absent),
      Patch(Absent, Some(0), Absent) }

Ids == 1..MaxDocs

\* req.body.urlIds: no id, the first id, every id
BulkRequests == {<<>>, <<1>>, [i \in 1..MaxDocs |-> i]}

GenOff == [returned |-> FALSE, off |-> TRUE]

ProbeOff == [verdict |-> Absent]

AuthOff == [off |-> TRUE]

-----------------------------------------------------------------------------
(* The server *)

Init ==
    /\ store = <<>>
    /\ nextId = 1
    /\ now = 0
    /\ pc = [p \in Procs |-> "idle"]
    /\ loc = [p \in Procs |-> Idle]
    /\ resp = [p \in Procs |-> NoResp]
    /\ shortened = <<>>
    /\ arrivals = <<>>
    /\ gen = GenOff
    /\ probe = ProbeOff
    /\ auth = AuthOff

\* the steps of request slot p
Handle(p) ==
    \/ \E r \in ShortenRequests : ShortenBegin(p, r.user, r.body)
    \/ \E rnd \in DrawSeqs : ShortenGenerate(p, rnd)
    \/ ShortenCheckCustom(p)
    \/ ShortenInsert(p)
    \/ \E c \in RedirectCodes, k \in ClickInputs : RedirectFind(p, c, k, MaxClicks)
    \/ RedirectSave(p)
    \/ \E u \in Users, id \in Ids : GetOne(p, u, id)
    \/ \E u \in Users, id \in Ids, b \in UpdateRequests : UpdateFind(p, u, id, b)
    \/ UpdateWrite(p)
    \/ \E u \in Users, id \in Ids : Delete(p, u, id)
    \/ \E u \in Users, ids \in BulkRequests : BulkDelete(p, u, ids)
    \/ \E u \in Users : StatsOverview(p, u)
    \/ \E u \in Users, id \in Ids : StatsUrl(p, u, id)
    \/ \E u \in Users : StatsRealtime(p, u)
    \/ \E c \in RedirectCodes : Info(p, c)
    \/ Finish(p)

\* requests processed one after another: a single request slot
Next == Handle(1) \/ Tick

Spec == Init /\ [][Next]_vars

\* shorten requests handled concurrently, interleaved at their store calls
ConcRequests ==
    {r \in ShortenRequests : r.body.customCode # Absent \/ r.body.maxClicks = Absent}

HandleShorten(p) ==
    \/ \E r \in ConcRequests : ShortenBegin(p, r.user, r.body)
    \/ \E rnd \in DrawSeqs : ShortenGenerate(p, rnd)
    \/ ShortenCheckCustom(p)
    \/ ShortenInsert(p)
    \/ Finish(p)

NextConc == \E p \in Procs : HandleShorten(p)

SpecConc == Init /\ [][NextConc]_vars

\* the generation loop of slot p, whatever the candidate drawn
ShortenLoop(p) == \E rnd \in DrawSeqs : ShortenGenerate(p, rnd)

\* the shorten requests that leave the code to the generator
TermRequests == {r \in ConcRequests : r.body.customCode = Absent /\ ShortenValid(r.body)}

HandleTerm(p) ==
    \/ \E r \in TermRequests : ShortenBegin(p, r.user, r.body)
    \/ ShortenLoop(p)
    \/ ShortenInsert(p)
    \/ Finish(p)

NextTerm == \E p \in Procs : HandleTerm(p)

\* the store answers every call: a handler waiting on findOne or save goes on
SpecTerm ==
    /\ Init /\ [][NextTerm]_vars
    /\ \A p \in Procs : WF_vars(ShortenLoop(p)) /\ WF_vars(ShortenInsert(p))

-----------------------------------------------------------------------------
(* The generator run on its own (SpecGen): one call per run, the loop one
   character at a time *)

\* the length parameter with its default
LengthOf(arg) == IF arg = Absent THEN DefaultLength ELSE arg[1]

\* the values the random source can give
DrawsOf(variant) == IF variant = "plain" THEN RandomDraws ELSE Bytes

\* the lowest and the highest value of the random source
EdgeDraws(variant) ==
    IF variant = "plain" THEN {0, RandomScale - 1} ELSE {0, 255}

\* calls with every length 0..MaxGenLen over every value of the random
\* source, and calls with the default length over its edge values
GenCalls ==
    {[variant |-> v, arg |-> Some(n), draws |-> DrawsOf(v)] :
        v \in {"plain", "secure"}, n \in 0..MaxGenLen}
    \cup {[variant |-> v, arg |-> Absent, draws |-> EdgeDraws(v)] : v \in {"plain", "secure"}}

InitGen ==
    /\ store = <<>>
    /\ nextId = 1
    /\ now = 0
    /\ pc = [p \in Procs |-> "idle"]
    /\ loc = [p \in Procs |-> Idle]
    /\ resp = [p \in Procs |-> NoResp]
    /\ shortened = <<>>
    /\ arrivals = <<>>
    /\ probe = ProbeOff
    /\ auth = AuthOff
    /\ \E c \in GenCalls :
         gen = [variant |-> c.variant, length |-> LengthOf(c.arg), draws |-> c.draws,
                i |-> 0, result |-> <<>>, returned |-> FALSE]

\* one pass of the for loop: result += the character of the next draw
GenStep(k) ==
    /\ ~gen.returned
    /\ gen.i < gen.length
    /\ gen' = [gen EXCEPT !.i = gen.i + 1,
                          !.result = gen.result \o (IF gen.variant = "plain"
                                                    THEN PlainChar(k) ELSE SecureChar(k))]
    /\ UNCHANGED <<store, nextId, now, pc, loc, resp, shortened, arrivals, probe, auth>>

\* return result
GenReturn ==
    /\ ~gen.returned
    /\ gen.i >= gen.length
    /\ gen' = [gen EXCEPT !.returned = TRUE]
    /\ UNCHANGED <<store, nextId, now, pc, loc, resp, shortened, arrivals, probe, auth>>

NextGen == (\E k \in gen.draws : GenStep(k)) \/ GenReturn

SpecGen == InitGen /\ [][NextGen]_vars

-----------------------------------------------------------------------------
(* The document methods on any document value (SpecAcc) *)

ProbeNums == (-1)..MaxProbe

ProbeDates == 0..MaxProbe

\* the values the schema allows for the fields the methods read
ProbeUrls ==
    [ isActive  : BOOLEAN,
      expiresAt : {Absent} \cup {Some(t) : t \in ProbeDates},
      maxClicks : {Absent} \cup {Some(n) : n \in ProbeNums},
      clicks    : ProbeNums ]

InitAcc ==
    /\ store = <<>>
    /\ nextId = 1
    /\ now \in ProbeDates
    /\ pc = [p \in Procs |-> "idle"]
    /\ loc = [p \in Procs |-> Idle]
    /\ resp = [p \in Procs |-> NoResp]
    /\ shortened = <<>>
    /\ arrivals = <<>>
    /\ gen = GenOff
    /\ \E u \in ProbeUrls : probe = [url |-> u, verdict |-> Absent]
    /\ auth = AuthOff

\* url.isAccessible() at the current time
ProbeAccessible ==
    /\ probe.verdict = Absent
    /\ probe' = [probe EXCEPT !.verdict = Some(isAccessible(probe.url, now))]
    /\ UNCHANGED <<store, nextId, now, pc, loc, resp, shortened, arrivals, gen, auth>>

NextAcc == ProbeAccessible

SpecAcc == InitAcc /\ [][NextAcc]_vars

-----------------------------------------------------------------------------
(* One record clicked past the history cap (SpecHist): every saved click has
   its own timestamp, and requests overlap once the history is within
   HistOver entries of the cap *)

HistRequest == [user |-> Absent, body |-> Body(UrlA, Some(CodeAAAAAA), Absent, Absent)]

Saved == SumLen(arrivals, DOMAIN arrivals)

HistHandle(p) ==
    \/ p = 1 /\ nextId = 1 /\ ShortenBegin(p, HistRequest.user, HistRequest.body)
    \/ ShortenCheckCustom(p)
    \/ ShortenInsert(p)
    \/ /\ p = 1 \/ Saved + HistOver >= HistoryCap
       /\ \E k \in ClickInputs : RedirectFind(p, CodeAAAAAA, k, HistoryCap + HistOver)
    \/ now = Saved /\ RedirectSave(p)
    \/ Finish(p)

\* the clock moves on after each saved click
HistTick ==
    /\ now < Saved
    /\ now' = now + 1
    /\ UNCHANGED <<store, nextId, pc, loc, resp, shortened, arrivals, gen, probe, auth>>

NextHist == (\E p \in Procs : HistHandle(p)) \/ HistTick

SpecHist == Init /\ [][NextHist]_vars

\* one record of u1 clicked past the history cap, one request after another,
\* and its statistics; the country of a click varies for the first HistOver
\* clicks and from the cap on
StatsRequest == [user |-> Some("u1"), body |-> Body(UrlA, Some(CodeAAAAAA), Absent, Absent)]

StatsClicks(saved) ==
    IF saved < HistOver \/ saved >= HistoryCap
    THEN {[ip |-> "10.0.0.1", country |-> ""], [ip |-> "10.0.0.1", country |-> "IN"]}
    ELSE {[ip |-> "10.0.0.1", country |-> ""]}

StatsHandle(p) ==
    \/ nextId = 1 /\ ShortenBegin(p, StatsRequest.user, StatsRequest.body)
    \/ ShortenCheckCustom(p)
    \/ ShortenInsert(p)
    \/ \E k \in StatsClicks(Saved) : RedirectFind(p, CodeAAAAAA, k, HistoryCap + HistOver)
    \/ RedirectSave(p)
    \/ \E id \in Ids : StatsUrl(p, "u1", id)
    \/ Finish(p)

NextStats == StatsHandle(1)

SpecStats == Init /\ [][NextStats]_vars

-----------------------------------------------------------------------------
(* One record and the requests for it handled concurrently (SpecRace):
   redirects, an update and a delete interleaved at their store calls *)

\* the record of the run: owned, with a caller-supplied code, with or
\* without a click limit of 1
RaceRequests ==
    { [user |-> Some("u1"), body |-> Body(UrlA, Some(CodeAAAAAA), Some(1), Absent)],
      [user |-> Some("u1"), body |-> Body(UrlA, Some(CodeAAAAAA), Absent, Absent)] }

RacePatches == {Patch(Some(FALSE), Absent, Absent), Patch(Some(TRUE), Absent, Absent)}

RaceHandle(p) ==
    \/ p = 1 /\ nextId = 1 /\ \E r \in RaceRequests : ShortenBegin(p, r.user, r.body)
    \/ ShortenCheckCustom(p)
    \/ ShortenInsert(p)
    \/ \E k \in ClickInputs : RedirectFind(p, CodeAAAAAA, k, MaxClicks + 1)
    \/ RedirectSave(p)
    \/ \E u \in Users, b \in RacePatches : UpdateFind(p, u, 1, b)
    \/ UpdateWrite(p)
    \/ \E u \in Users : Delete(p, u, 1)
    \/ Finish(p)

NextRace == \E p \in Procs : RaceHandle(p)

SpecRace == Init /\ [][NextRace]_vars

-----------------------------------------------------------------------------
(* A code deleted and taken again while redirects for it are in flight
   (SpecReuse): slot 1 creates and deletes, the other slots redirect *)

ReuseRequest == [user |-> Some("u1"), body |-> Body(UrlA, Some(CodeAAAAAA), Absent, Absent)]

ReuseHandle(p) ==
    \/ p = 1 /\ ShortenBegin(p, ReuseRequest.user, ReuseRequest.body)
    \/ ShortenCheckCustom(p)
    \/ ShortenInsert(p)
    \/ p # 1 /\ \E k \in ClickInputs : RedirectFind(p, CodeAAAAAA, k, MaxClicks)
    \/ RedirectSave(p)
    \/ p = 1 /\ \E id \in Ids : Delete(p, "u1", id)
    \/ Finish(p)

NextReuse == \E p \in Procs : ReuseHandle(p)

SpecReuse == Init /\ [][NextReuse]_vars

\* one record of u1 and its owner's updates: every choice of the six fields
\* a PUT body may hold
TitleOld == <<" ", "t", "1">>
DescriptionNew == <<"d", "2">>
TagsOld == <<"a">>

EditFields == {"title", "description", "expiresAt", "maxClicks", "tags", "isActive"}

\* the PUT body holding the fields of S
EditBody(S) ==
    [ isActive    |-> IF "isActive" \in S THEN Some(FALSE) ELSE Absent,
      maxClicks   |-> IF "maxClicks" \in S THEN Some(MaxClicks + 1) ELSE Absent,
      expiresAt   |-> IF "expiresAt" \in S THEN Some(2) ELSE Absent,
      title       |-> IF "title" \in S THEN Some(<<"t", "2", " ">>) ELSE Absent,
      description |-> IF "description" \in S THEN Some(DescriptionNew) ELSE Absent,
      tags        |-> IF "tags" \in S THEN Some(<<"b", "c">>) ELSE Absent ]

EditRequests ==
    {EditBody(S) : S \in SUBSET EditFields}
        \cup {[EditBody({}) EXCEPT
                 !.title = Some([i \in 1..(TitleMaxLength + 1) |-> "t"])],
              [EditBody({}) EXCEPT !.isActive = Some(TRUE)]}

EditHandle(p) ==
    \/ /\ nextId = 1
       /\ \E b \in { Body(UrlA, Some(CodeAAAAAA), Absent, Absent),
                      [Body(UrlB, Some(CodeAAAAAA), Some(MaxClicks), Some(1))
                         EXCEPT !.title = Some(TitleOld), !.tags = Some(TagsOld)] } :
            ShortenBegin(p, Some("u1"), b)
    \/ ShortenCheckCustom(p)
    \/ ShortenInsert(p)
    \/ \E k \in ClickInputs : RedirectFind(p, CodeAAAAAA, k, MaxClicks)
    \/ RedirectSave(p)
    \/ \E u \in Users, id \in Ids, b \in EditRequests : UpdateFind(p, u, id, b)
    \/ UpdateWrite(p)
    \/ Finish(p)

NextEdit == EditHandle(1)

SpecEdit == Init /\ [][NextEdit]_vars

\* one record, its owner's updates and the clock in slot 1; info requests in
\* every slot and redirects in the others
InfoHandle(p) ==
    \/ /\ p = 1 /\ nextId = 1
       /\ \E b \in { Body(UrlA, Some(CodeAAAAAA), Absent, Absent),
                      Body(UrlB, Some(CodeAAAAAA), Some(1), Some(0)) } :
            ShortenBegin(p, Some("u1"), b)
    \/ ShortenCheckCustom(p)
    \/ ShortenInsert(p)
    \/ p # 1 /\ \E k \in ClickInputs : RedirectFind(p, CodeAAAAAA, k, MaxClicks)
    \/ RedirectSave(p)
    \/ p = 1 /\ \E id \in Ids, b \in UpdateRequests : UpdateFind(p, "u1", id, b)
    \/ UpdateWrite(p)
    \/ Info(p, CodeAAAAAA)
    \/ Finish(p)

NextInfo == (\E p \in Procs : InfoHandle(p)) \/ Tick

SpecInfo == Init /\ [][NextInfo]_vars

\* a collection of up to MaxListed documents of two users, some of them
\* clicked once, and the list requests on it
PageCode(d) == [i \in 1..DefaultLength |-> chars[d]]

PageUrl(d, user, clicked) ==
    LET url == NewUrl(d, Body(IF d % 2 = 1 THEN UrlA ELSE UrlB, Some(PageCode(d)),
                              Absent, Absent),
                      Some(user), PageCode(d))
    IN  IF clicked THEN addClick(url, [ip |-> "10.0.0.1", country |-> ""], 0) ELSE url

PageStores ==
    UNION { { [d \in 1..n |-> PageUrl(d, owner[d], clicked[d])] :
                owner \in [1..n -> Users], clicked \in [1..n -> BOOLEAN] } :
            n \in 0..MaxListed }

InitPage ==
    /\ store \in PageStores
    /\ nextId = Cardinality(DOMAIN store) + 1
    /\ now = 0
    /\ pc = [p \in Procs |-> "idle"]
    /\ loc = [p \in Procs |-> Idle]
    /\ resp = [p \in Procs |-> NoResp]
    /\ shortened = <<>>
    /\ arrivals = <<>>
    /\ gen = GenOff
    /\ probe = ProbeOff
    /\ auth = AuthOff

PageHandle(p) ==
    \/ \E page \in 1..MaxPage, limit \in 1..MaxLimit,
          search \in {Absent, Some(""), Some("a")},
          sortBy \in {"createdAt", "clicks"}, sortOrder \in {"desc", "asc"} :
          MyUrls(p, "u1", page, limit, search, sortBy, sortOrder)
    \/ Finish(p)

NextPage == PageHandle(1)

SpecPage == InitPage /\ [][NextPage]_vars

-----------------------------------------------------------------------------
(* Properties of requests processed one after another (Spec) *)

\* the redirect responses that found a record
RedirectsFound == {p \in Procs : resp[p].op = "redirect" /\ resp[p].url # Absent}

\* C1: a redirect for the code of a record that exists and is accessible
\* answers 302 with the location equal to the originalUrl of the shorten
\* request that created the record, whose 201 response returned that code
C1_RoundTrip ==
    \A p \in RedirectsFound :
        LET r == resp[p]
            made == shortened[r.url[1]._id]
        IN  /\ made.code = r.code
            /\ r.url[1].isActive
                 /\ (r.url[1].expiresAt = Absent \/ r.at <= r.url[1].expiresAt[1])
                 /\ (r.url[1].maxClicks = Absent \/ r.url[1].clicks < r.url[1].maxClicks[1])
               => r.status = 302 /\ r.location = made.body.originalUrl

\* a 302 for a caller-supplied code and for a generated code, each to the URL requested
C1_Witness ==
    \E p \in RedirectsFound :
        /\ resp[p].status = 302
        /\ resp[p].url[1].customCode
        /\ resp[p].location = UrlB
        /\ \E d \in DOMAIN store : ~store[d].customCode /\ store[d].originalUrl = UrlA

\* C2: for a record with maxClicks = N >= 1, active and without expiry, a
\* redirect answers 302 when fewer than N clicks were recorded before it and
\* 410 otherwise, and the record is accessible exactly while fewer than N
\* clicks are recorded
C2_ExactlyN ==
    /\ \A p \in RedirectsFound :
        LET r == resp[p]
            u == r.url[1]
            before == Len(arrivals[u._id]) - (IF r.status = 302 THEN 1 ELSE 0)
        IN  u.maxClicks # Absent /\ u.maxClicks[1] >= 1 /\ u.isActive /\ u.expiresAt = Absent
            => /\ before < u.maxClicks[1] => r.status = 302
               /\ before >= u.maxClicks[1] => r.status = 410
    /\ \A d \in DOMAIN store :
        LET u == store[d] IN
        u.maxClicks # Absent /\ u.maxClicks[1] >= 1 /\ u.isActive /\ u.expiresAt = Absent
        => (isAccessible(u, now) <=> Len(arrivals[d]) < u.maxClicks[1])

\* the request after the second click of a record with maxClicks = 2 is answered 410
C2_Witness ==
    \E p \in RedirectsFound :
        /\ resp[p].status = 410
        /\ resp[p].url[1].maxClicks = Some(2)
        /\ resp[p].url[1].isActive
        /\ resp[p].url[1].expiresAt = Absent
        /\ Len(arrivals[resp[p].url[1]._id]) = 2

\* C3: a record whose expiresAt is before the current time is not
\* accessible whatever isActive, clicks and maxClicks are; a redirect for it
\* answers 410 and the stored record stays as it was read
C3_ExpiredGone ==
    /\ \A d \in DOMAIN store :
        store[d].expiresAt # Absent /\ store[d].expiresAt[1] < now
        => ~isAccessible(store[d], now)
    /\ \A p \in RedirectsFound :
        LET r == resp[p]
            u == r.url[1]
        IN  u.expiresAt # Absent /\ u.expiresAt[1] < r.at
            => /\ r.status = 410
               /\ store[u._id] = u
               /\ Len(arrivals[u._id]) = u.clicks

\* a 410 for a record that is active and under its click limit, only expired
C3_Witness ==
    \E p \in RedirectsFound :
        LET u == resp[p].url[1] IN
        /\ resp[p].status = 410
        /\ u.expiresAt # Absent /\ u.expiresAt[1] < resp[p].at
        /\ u.isActive
        /\ u.maxClicks = Some(1) /\ u.clicks = 0

\* C8: a redirect for an existing record that is expired, at its click
\* limit or deactivated answers 410, with the message for expiry first, the
\* click limit second and deactivation last
C8_ReasonPriority ==
    \A p \in RedirectsFound :
        LET r == resp[p]
            u == r.url[1]
            expired == u.expiresAt # Absent /\ u.expiresAt[1] < r.at
            exhausted == u.maxClicks # Absent /\ u.clicks >= u.maxClicks[1]
            deactivated == ~u.isActive
        IN  expired \/ exhausted \/ deactivated
            => /\ r.status = 410
               /\ r.message = IF expired THEN "This short URL has expired"
                              ELSE IF exhausted
                              THEN "This short URL has reached its maximum click limit"
                              ELSE "This short URL has been deactivated"

\* a deactivated record at its click limit, not expired: the limit is the reason given
C8_Witness ==
    \E p \in RedirectsFound :
        LET u == resp[p].url[1] IN
        /\ resp[p].status = 410
        /\ ~u.isActive
        /\ u.maxClicks # Absent /\ u.clicks >= u.maxClicks[1]
        /\ ~(u.expiresAt # Absent /\ u.expiresAt[1] < resp[p].at)
        /\ resp[p].message = "This short URL has reached its maximum click limit"

\* C5: a shorten request whose custom code equals the short code of a
\* stored record is answered 400 'Custom code is already taken' and the
\* store stays as it was: no record created, none changed
C5_CustomTaken ==
    [][\A p \in Procs :
         /\ pc[p] = "checkCustom"
         /\ pc'[p] # "checkCustom"
         /\ \E d \in DOMAIN store : store[d].shortCode = loc[p].body.customCode[1]
         => /\ resp'[p].status = 400
            /\ resp'[p].message = "Custom code is already taken"
            /\ store' = store
            /\ nextId' = nextId]_vars

\* the 400 for a custom code equal to a stored, generated code
C5_Witness ==
    \E p \in Procs :
        /\ resp[p].op = "shorten"
        /\ resp[p].status = 400
        /\ resp[p].message = "Custom code is already taken"
        /\ \E d \in DOMAIN store :
             store[d].shortCode = resp[p].body.customCode[1] /\ ~store[d].customCode

\* C10: the 500 'Unable to generate unique short code' is sent only after
\* maxAttempts candidates were each found in the store, so the last candidate
\* generated is a stored code
C10_TenCandidatesChecked ==
    \A p \in Procs :
        resp[p].op = "shorten" /\ resp[p].message = "Unable to generate unique short code"
        => /\ resp[p].hits = maxAttempts
           /\ \E d \in DOMAIN store : store[d].shortCode = resp[p].code

\* C11: a record created by a shorten request starts with clicks = 0, an
\* empty click history and isActive = true; a redirect that answers 302 raises
\* the stored clicks by exactly 1 and appends exactly one entry to the
\* stored history
C11_ClickCounted ==
    [][/\ \A d \in DOMAIN store' \ DOMAIN store :
            /\ store'[d].clicks = 0
            /\ store'[d].clickHistory = <<>>
            /\ store'[d].isActive
       /\ \A p \in Procs :
            pc[p] = "addClick" /\ resp'[p].status = 302
            => LET id == loc[p].url._id IN
               /\ store'[id].clicks = store[id].clicks + 1
               /\ store'[id].clickHistory =
                    Append(store[id].clickHistory, ClickEntry(loc[p].click, now))
               /\ \A d \in DOMAIN store \ {id} : d \in DOMAIN store' /\ store'[d] = store[d]]_vars

\* the first redirect of a record: loaded with clicks = 0, stored with clicks = 1
C11_Witness ==
    \E p \in RedirectsFound :
        LET u == resp[p].url[1] IN
        /\ resp[p].status = 302
        /\ u.clicks = 0 /\ u.clickHistory = <<>>
        /\ u._id \in DOMAIN store
        /\ store[u._id].clicks = 1
        /\ Len(store[u._id].clickHistory) = 1

\* C12: a redirect for a code no stored record has answers 404, and a
\* redirect that answers 404 or 410 leaves the whole store as it was: no
\* counter raised, no history entry appended
C12_NoClickOnMiss ==
    [][\A p \in Procs :
         pc[p] # "done" /\ pc'[p] = "done" /\ resp'[p].op = "redirect"
         => /\ (\A d \in DOMAIN store : store[d].shortCode # resp'[p].code)
                 => resp'[p].status = 404
            /\ resp'[p].status \in {404, 410}
                 => store' = store /\ arrivals' = arrivals]_vars

\* a 410 for a record at its click limit, stored as it was read
C12_Witness ==
    \E p \in RedirectsFound :
        LET u == resp[p].url[1] IN
        /\ resp[p].status = 410
        /\ u.maxClicks # Absent /\ u.clicks >= 1 /\ u.clicks = u.maxClicks[1]
        /\ u._id \in DOMAIN store
        /\ store[u._id] = u
        /\ Len(arrivals[u._id]) = u.clicks

\* C14: a record leaves the store only in a delete or bulk delete answered
\* 200 to the user who owns it; time passing, clicks and updates remove
\* nothing, and a redirect for a stored record that is expired, at its click
\* limit or deactivated answers 410, never 404
C14_OnlyDeleteRemoves ==
    [][/\ \A d \in DOMAIN store :
            d \notin DOMAIN store'
            => \E p \in Procs :
                 /\ pc[p] = "idle" /\ pc'[p] = "done"
                 /\ resp'[p].op \in {"delete", "bulkDelete"}
                 /\ resp'[p].status = 200
                 /\ resp'[p].user = store[d].userId
       /\ \A p \in Procs :
            /\ pc[p] = "idle" /\ pc'[p] = "done" /\ resp'[p].op = "redirect"
            /\ \E d \in DOMAIN store :
                 /\ store[d].shortCode = resp'[p].code
                 /\ ~isAccessible(store[d], now)
            => resp'[p].status = 410]_vars

\* a deactivated record, expired as well, still stored and answered 410,
\* after the other record of the run was deleted
C14_Witness ==
    \E p \in RedirectsFound :
        LET u == resp[p].url[1] IN
        /\ resp[p].status = 410
        /\ ~u.isActive
        /\ u.expiresAt # Absent /\ u.expiresAt[1] < now
        /\ u._id \in DOMAIN store
        /\ nextId = 3
        /\ DOMAIN store = {u._id}

\* C21: the analytics endpoints and the preview endpoint leave the store as
\* it was: every record keeps its clicks, its click history and its other fields
C21_ReadsKeepStore ==
    [][\A p \in Procs :
         /\ pc[p] # "done" /\ pc'[p] = "done"
         /\ resp'[p].op \in {"statsOverview", "statsUrl", "statsRealtime", "info"}
         => store' = store /\ arrivals' = arrivals /\ nextId' = nextId]_vars

\* per-URL statistics of a record clicked at two times: the response lists
\* the newer click first, the stored history keeps the order of arrival
C21_Witness ==
    \E p \in Procs :
        /\ resp[p].op = "statsUrl" /\ resp[p].status = 200
        /\ Len(resp[p].data.recentClicks) = 2
        /\ resp[p].data.recentClicks[1].timestamp > resp[p].data.recentClicks[2].timestamp
        /\ store[resp[p].url[1]._id].clickHistory = arrivals[resp[p].url[1]._id]
        /\ store[resp[p].url[1]._id] = resp[p].url[1]

\* the fields of a record that a redirect does not write
Settings(url) == [f \in DOMAIN url \ {"clicks", "clickHistory", "v"} |-> url[f]]

\* C22: GET, PUT and DELETE on /api/urls/:id and bulk delete read, change
\* or remove a record only for the requester stored as its userId; for a
\* record of another user or of nobody the answer is 404 (bulk delete skips
\* it) and the store is unchanged
C22_OwnerOnly ==
    [][/\ \A p \in Procs :
            /\ pc[p] = "idle" /\ pc'[p] = "done"
            /\ resp'[p].op \in {"get", "update", "delete"}
            /\ resp'[p].status # 400
            /\ \/ resp'[p].id \notin DOMAIN store
               \/ store[resp'[p].id].userId # resp'[p].user
            => resp'[p].status = 404 /\ resp'[p].url = Absent /\ store' = store
       /\ \A p \in Procs :
            pc[p] = "idle" /\ pc'[p] = "done" /\ resp'[p].op = "get" /\ resp'[p].status = 200
            => resp'[p].url = Some(store[resp'[p].id])
               /\ store[resp'[p].id].userId = resp'[p].user
       /\ \A d \in DOMAIN store :
            d \notin DOMAIN store' \/ Settings(store'[d]) # Settings(store[d])
            => \E p \in Procs :
                 /\ pc[p] \in {"idle", "update"} /\ pc'[p] = "done"
                 /\ resp'[p].op \in {"update", "delete", "bulkDelete"}
                 /\ resp'[p].status = 200
                 /\ resp'[p].user = store[d].userId]_vars

\* a PUT by u2 on a record of u1, answered 404, with a record of nobody stored too
C22_Witness ==
    \E p \in Procs :
        /\ resp[p].op = "update" /\ resp[p].status = 404
        /\ resp[p].user = Some("u2")
        /\ resp[p].id \in DOMAIN store
        /\ store[resp[p].id].userId = Some("u1")
        /\ \E d \in DOMAIN store : store[d].userId = Absent

-----------------------------------------------------------------------------
(* Properties of concurrent shorten requests (SpecConc) *)

\* C6: no two stored records have the same short code
C6_UniqueShortCode ==
    \A d, e \in DOMAIN store : d # e => store[d].shortCode # store[e].shortCode

\* two requests for one code both passed their existence check; one record
\* is stored, the other insert was refused
C6_Witness ==
    \E p \in Procs :
        /\ resp[p].op = "shorten"
        /\ resp[p].status = 500
        /\ resp[p].message = "Server error during URL shortening"
        /\ \E d \in DOMAIN store : store[d].shortCode = resp[p].code

\* C13: a shorten request answered with an error (400 or 500) leaves the
\* store as it was: no record created, none changed
C13_ErrorKeepsStore ==
    [][\A p \in Procs :
         /\ pc[p] # "done" /\ pc'[p] = "done"
         /\ resp'[p].op = "shorten"
         /\ resp'[p].status \in {400, 500}
         => store' = store /\ nextId' = nextId /\ shortened' = shortened]_vars

\* the 500 of an exhausted generation, with the stored record that every
\* candidate met still the only one
C13_Witness ==
    \E p \in Procs :
        /\ resp[p].op = "shorten"
        /\ resp[p].status = 500
        /\ resp[p].message = "Unable to generate unique short code"
        /\ resp[p].hits = maxAttempts - 1
        /\ Cardinality(DOMAIN store) = 1
        /\ \A d \in DOMAIN store : store[d] = NewUrl(d, shortened[d].body, store[d].userId, shortened[d].code)

\* C18: a shorten request with a custom code that passed the existence
\* check is answered 201 and creates the record when the code is still free
\* at the insert, and is answered 500 and creates nothing when another
\* request stored the code in between; no code is answered 201 twice
C18_OneWinner ==
    [][/\ \A p \in Procs :
            pc[p] = "insert" /\ pc'[p] = "done" /\ loc[p].body.customCode # Absent
            => IF \E d \in DOMAIN store : store[d].shortCode = loc[p].shortCode
               THEN /\ resp'[p].status = 500
                    /\ store' = store /\ nextId' = nextId
               ELSE /\ resp'[p].status = 201
                    /\ DOMAIN store' = DOMAIN store \cup {nextId}
                    /\ store'[nextId].shortCode = loc[p].shortCode
                    /\ \A d \in DOMAIN store : store'[d] = store[d]
       /\ \A p, q \in Procs :
            /\ p # q
            /\ resp'[p].op = "shorten" /\ resp'[p].status = 201
            /\ resp'[q].op = "shorten" /\ resp'[q].status = 201
            => resp'[p].code # resp'[q].code]_vars

\* two requests for the custom code AAAAAA both passed the check: one is
\* answered 201, the other 500, and one record holds the code
C18_Witness ==
    \E p, q \in Procs :
        /\ p # q
        /\ resp[p].op = "shorten" /\ resp[p].status = 201
        /\ resp[p].body.customCode = Some(CodeAAAAAA)
        /\ resp[q].op = "shorten" /\ resp[q].status = 500
        /\ resp[q].message = "Server error during URL shortening"
        /\ resp[q].body.customCode = Some(CodeAAAAAA)
        /\ Cardinality({d \in DOMAIN store : store[d].shortCode = CodeAAAAAA}) = 1

\* C20: a shorten request without a custom code generates at most 10
\* candidates and ends with one response, 201 or 500, whatever the store
\* holds; no response is sent while a handler is still running
C20_Terminates ==
    /\ [](\A p \in Procs :
            /\ pc[p] = "generate" => loc[p].attempts < maxAttempts
            /\ pc[p] # "done" => resp[p] = NoResp)
    /\ \A p \in Procs :
            (pc[p] = "generate")
                ~> (pc[p] = "done" /\ resp[p].op = "shorten" /\ resp[p].status \in {201, 500})

\* a request whose every candidate met the stored code: answered 500 at
\* its tenth candidate
C20_Witness ==
    \E p \in Procs :
        /\ pc[p] = "done"
        /\ resp[p].op = "shorten"
        /\ resp[p].body.customCode = Absent
        /\ resp[p].status = 500
        /\ resp[p].checked = maxAttempts - 1
        /\ resp[p].hits = resp[p].checked
        /\ \E d \in DOMAIN store : store[d].shortCode = resp[p].code

-----------------------------------------------------------------------------
(* Properties of concurrent requests for one record (SpecRace) *)

\* C15: a record's click counter equals the number of click entries ever
\* appended to its history, and the stored history has min(clicks, 100) entries
C15_CounterMatchesHistory ==
    \A d \in DOMAIN store :
        /\ store[d].clicks = Len(arrivals[d])
        /\ Len(store[d].clickHistory) =
             (IF store[d].clicks < HistoryCap THEN store[d].clicks ELSE HistoryCap)

\* C16: for a record with maxClicks = N no more than N redirects are
\* answered 302 (each 302 follows one saved click)
C16_AtMostN ==
    \A d \in DOMAIN store :
        store[d].maxClicks # Absent => Len(arrivals[d]) <= store[d].maxClicks[1]

\* C17: the click update is a read-modify-write: the counter a redirect
\* stores is the counter it loaded plus one, whatever was stored in between,
\* so the stored counter never exceeds the number of 302 answers and can
\* fall below it (the witness: two 302 answers, stored clicks 1)
C17_ReadModifyWrite ==
    [][/\ \A p \in Procs :
            pc[p] = "addClick" /\ resp'[p].status = 302
            => store'[loc[p].url._id].clicks = loc[p].url.clicks + 1
       /\ \A d \in DOMAIN store' : store'[d].clicks <= Len(arrivals'[d])]_vars

\* two requests loaded the record at clicks = 0, both were answered 302 and
\* the stored counter is 1
C17_Witness ==
    \E p, q \in Procs :
        /\ p # q
        /\ resp[p].op = "redirect" /\ resp[p].status = 302
        /\ resp[q].op = "redirect" /\ resp[q].status = 302
        /\ resp[p].url[1].clicks = 0 /\ resp[q].url[1].clicks = 0
        /\ resp[p].url[1]._id = resp[q].url[1]._id
        /\ resp[p].url[1]._id \in DOMAIN store
        /\ store[resp[p].url[1]._id].clicks = 1
        /\ Len(arrivals[resp[p].url[1]._id]) = 2

\* C19: the redirect handler saves the click before it answers 302: every
\* step that answers 302 stores the request's history entry and counter, and
\* a request whose save fails is answered 500 with no location and nothing stored
C19_SaveBeforeRedirect ==
    [][\A p \in Procs :
         pc[p] = "addClick" /\ pc'[p] = "done"
         => LET id == loc[p].url._id
                saved == /\ id \in DOMAIN store /\ id \in DOMAIN store'
                         /\ Len(arrivals'[id]) = Len(arrivals[id]) + 1
                         /\ store'[id].v = store[id].v + 1
                         /\ store'[id].clickHistory # <<>>
                         /\ store'[id].clickHistory[Len(store'[id].clickHistory)]
                              = ClickEntry(loc[p].click, now)
            IN  /\ resp'[p].status \in {302, 500}
                /\ resp'[p].status = 302 <=> saved
                /\ resp'[p].status = 302 => resp'[p].location = loc[p].url.originalUrl
                /\ resp'[p].status = 500 => resp'[p].location = <<>> /\ store' = store]_vars

\* the record was deleted between the lookup and the save: the request is
\* answered 500, not redirected
C19_Witness ==
    \E p \in Procs :
        /\ resp[p].op = "redirect"
        /\ resp[p].status = 500
        /\ resp[p].message = "Server error during redirection"
        /\ resp[p].location = <<>>
        /\ resp[p].url[1]._id \notin DOMAIN store

\* C23: the click counter of a stored record never decreases: every step
\* leaves clicks at least at its previous stored value
C23_ClicksNeverDecrease ==
    [][\A d \in DOMAIN store :
         d \in DOMAIN store' => store'[d].clicks >= store[d].clicks]_vars

\* C24: a redirect that starts while the record is stored with isActive =
\* false is answered 410 and saves no click; isActive changes only in an
\* owner's update that sets it, so the save of a redirect that loaded the
\* record before a deactivation does not turn it back on
C24_DeactivationHolds ==
    [][/\ \A p \in Procs :
            /\ pc[p] = "idle" /\ pc'[p] # "idle"
            /\ \/ pc'[p] = "addClick"
               \/ pc'[p] = "done" /\ resp'[p].op = "redirect"
            /\ \E d \in DOMAIN store :
                 store[d].shortCode = CodeAAAAAA /\ ~store[d].isActive
            => /\ pc'[p] = "done"
               /\ resp'[p].status = 410
               /\ store' = store /\ arrivals' = arrivals
       /\ \A d \in DOMAIN store :
            d \in DOMAIN store' /\ store'[d].isActive # store[d].isActive
            => \E p \in Procs :
                 /\ pc[p] = "update" /\ pc'[p] = "done"
                 /\ resp'[p].status = 200
                 /\ loc[p].id = d
                 /\ loc[p].user = "u1"
                 /\ loc[p].body.isActive = Some(store'[d].isActive)]_vars

\* the update that deactivated the record returned it with clicks = 0; a
\* redirect that had loaded it before saved its click afterwards and was
\* answered 302; the record is stored with clicks = 1, still deactivated
C24_Witness ==
    \E p, q \in Procs :
        /\ resp[q].op = "update" /\ resp[q].status = 200
        /\ resp[q].url # Absent
        /\ ~resp[q].url[1].isActive /\ resp[q].url[1].clicks = 0
        /\ resp[p].op = "redirect" /\ resp[p].status = 302
        /\ resp[p].url[1].isActive
        /\ resp[p].url[1]._id = resp[q].id
        /\ resp[q].id \in DOMAIN store
        /\ store[resp[q].id].clicks = 1
        /\ ~store[resp[q].id].isActive

-----------------------------------------------------------------------------
(* The frontend AuthProvider (SpecAuth): the user and token state of the
   component, the token in localStorage, and the /me, /login and /register
   requests in flight.  A callback runs to its end before the next one
   starts; the effects on [token] run after the render that changed it. *)

\* the token issued by the k-th successful login or register, for user u;
\* token 0 is the one a previous session left in localStorage
Token(k, u) == [n |-> k, user |-> u]

OldToken == Token(0, "u1")

\* the page is loaded: useState(null), useState(localStorage.getItem('token')),
\* no request in flight, the effects due
Mounted(ls, issued, posts) ==
    [ user      |-> Absent,
      token     |-> ls,
      ls        |-> ls,
      me        |-> {},
      posts     |-> {},
      sent      |-> posts,
      issued    |-> issued,
      effectDue |-> TRUE ]

InitAuth ==
    /\ store = <<>>
    /\ nextId = 1
    /\ now = 0
    /\ pc = [p \in Procs |-> "idle"]
    /\ loc = [p \in Procs |-> Idle]
    /\ resp = [p \in Procs |-> NoResp]
    /\ shortened = <<>>
    /\ arrivals = <<>>
    /\ gen = GenOff
    /\ probe = ProbeOff
    /\ \E ls \in {Absent, Some(OldToken)} : auth = Mounted(ls, 0, 0)

AuthFrame == UNCHANGED <<store, nextId, now, pc, loc, resp, shortened, arrivals, gen, probe>>

\* setToken(t): a changed token makes the effects on [token] due
SetToken(a, t) ==
    [a EXCEPT !.token = t, !.effectDue = a.effectDue \/ t # a.token]

\* addAuthToken: the request carries the localStorage token, or else the
\* default header the first effect set from the state token
Bearer(a) == IF a.ls # Absent THEN a.ls ELSE a.token

\* the effects on [token]: loadUser sends GET /me when a token is held
LoadUser ==
    /\ auth.effectDue
    /\ auth' = [auth EXCEPT !.effectDue = FALSE,
                            !.me = IF auth.token # Absent
                                   THEN auth.me \cup {Bearer(auth)}
                                   ELSE auth.me]
    /\ AuthFrame

\* GET /me answers success: setUser(response.data.data.user)
MeSucceeds ==
    /\ \E t \in auth.me :
         auth' = [auth EXCEPT !.me = auth.me \ {t}, !.user = Some(t[1].user)]
    /\ AuthFrame

\* GET /me answers without success, or fails with anything but a 401:
\* localStorage.removeItem('token'); setToken(null)
MeFails ==
    /\ \E t \in auth.me :
         auth' = SetToken([auth EXCEPT !.me = auth.me \ {t}, !.ls = Absent], Absent)
    /\ AuthFrame

\* a request answered 401: handleResponseError removes the token and sets
\* window.location.href, the caller's catch block runs, and the page loads
\* anew with nothing in localStorage
Unauthorized ==
    /\ auth.me # {} \/ auth.posts # {}
    /\ auth' = Mounted(Absent, auth.issued, auth.sent)
    /\ AuthFrame

\* login(email, password) or register(username, email, password): the POST is sent
PostBegin(kind, u) ==
    /\ auth.sent < MaxLogins
    /\ auth' = [auth EXCEPT !.posts = auth.posts \cup {[kind |-> kind, user |-> u]},
                            !.sent = auth.sent + 1]
    /\ AuthFrame

\* the POST answers success: setUser(userData); setToken(newToken);
\* localStorage.setItem('token', newToken)
PostSucceeds ==
    /\ \E r \in auth.posts :
         LET newToken == Some(Token(auth.issued + 1, r.user)) IN
         auth' = [SetToken([auth EXCEPT !.posts = auth.posts \ {r},
                                        !.user = Some(r.user),
                                        !.issued = auth.issued + 1],
                           newToken)
                    EXCEPT !.ls = newToken]
    /\ AuthFrame

\* the POST answers without success, or fails with anything but a 401: a toast
PostFails ==
    /\ \E r \in auth.posts : auth' = [auth EXCEPT !.posts = auth.posts \ {r}]
    /\ AuthFrame

\* logout(): setUser(null); setToken(null); localStorage.removeItem('token')
Logout ==
    /\ auth' = [SetToken([auth EXCEPT !.user = Absent], Absent) EXCEPT !.ls = Absent]
    /\ auth' # auth
    /\ AuthFrame

NextAuth ==
    \/ LoadUser
    \/ MeSucceeds
    \/ MeFails
    \/ Unauthorized
    \/ \E kind \in {"login", "register"}, u \in Users : PostBegin(kind, u)
    \/ PostSucceeds
    \/ PostFails
    \/ Logout

SpecAuth == InitAuth /\ [][NextAuth]_vars

\* C28: while user is non-null the state token is non-null and equals the
\* token in localStorage
C28_UserHoldsToken ==
    auth.user # Absent => auth.token # Absent /\ auth.token = auth.ls

-----------------------------------------------------------------------------
(* Properties of the owner's updates (SpecEdit) *)

-----------------------------------------------------------------------------
(* Properties of the info request beside a redirect (SpecInfo) *)

\* C27: when an info request and a redirect request for the same code
\* loaded the same stored record at the same time, the isAccessible field
\* of the info response is true exactly when the redirect is answered 302,
\* although the info request loaded the record without its click history
C27_InfoAgreesWithRedirect ==
    \A p, q \in Procs :
        /\ resp[p].op = "info" /\ resp[p].status = 200
        /\ resp[q].op = "redirect" /\ resp[q].url # Absent
        /\ resp[q].code = resp[p].code
        /\ resp[q].at = resp[p].at
        /\ \A f \in DOMAIN resp[q].url[1] \ {"clickHistory"} :
              resp[q].url[1][f] = resp[p].data.url[f]
        => /\ "clickHistory" \notin DOMAIN resp[p].data.url
           /\ resp[p].data.isAccessible <=> resp[q].status = 302

\* an active, unexpired record at its click limit: the info response says
\* isAccessible false and a redirect that loaded the same record at the same
\* time was answered 410
C27_Witness ==
    \E p, q \in Procs :
        /\ resp[p].op = "info" /\ resp[p].status = 200
        /\ resp[q].op = "redirect" /\ resp[q].status = 410
        /\ resp[q].at = resp[p].at
        /\ resp[q].url = Some(store[1])
        /\ resp[p].data.url = WithoutHistory(store[1])
        /\ store[1].isActive /\ ~isExpired(store[1], resp[p].at)
        /\ store[1].clickHistory # <<>>
        /\ ~resp[p].data.isAccessible

-----------------------------------------------------------------------------
(* Properties of the list of a user's records (SpecPage) *)

\* C29: a list response for page p >= 1 and limit L >= 1 over the n
\* matching records holds the records at positions (p-1)*L+1 .. min(p*L, n)
\* of the sorted list, totalUrls = n, totalPages is the least k with
\* k*L >= n, hasNext iff p*L < n, hasPrev iff p > 1, and every position
\* 1..n lies on exactly one of the pages 1..totalPages
C29_Pagination ==
    [][\A p \in Procs :
         pc[p] = "idle" /\ pc'[p] = "done" /\ resp'[p].op = "myUrls"
         => \A r \in {resp'[p]} :
            \A found \in {FindSorted(MyUrlsQuery(r.user[1], r.data.search),
                                     r.data.sortBy, r.data.sortOrder)} :
            \A n \in {Len(found)} :
              LET page == r.data.page
                  L == r.data.limit
                  pg == r.data.pagination
                  first == (page - 1) * L + 1
                  last == IF page * L < n THEN page * L ELSE n
              IN /\ r.status = 200
                 /\ Len(r.data.urls) = (IF last >= first THEN last - first + 1 ELSE 0)
                 /\ \A i \in 1..Len(r.data.urls) :
                      r.data.urls[i] = WithoutHistory(found[first + i - 1])
                 /\ pg.currentPage = page
                 /\ pg.totalUrls = n
                 /\ pg.totalPages * L >= n
                 /\ \A k \in 0..(pg.totalPages - 1) : k * L < n
                 /\ pg.hasNext <=> page * L < n
                 /\ pg.hasPrev <=> page > 1
                 /\ \A i \in 1..n :
                      \E q \in 1..pg.totalPages :
                         /\ (q - 1) * L + 1 <= i /\ i <= q * L
                         /\ \A q2 \in 1..pg.totalPages :
                              (q2 - 1) * L + 1 <= i /\ i <= q2 * L => q2 = q
                 /\ store' = store]_vars

\* the second page of three matching records listed two a page: one record,
\* the last of the sorted list, with a page before it and none after it
C29_Witness ==
    \E p \in Procs :
        /\ resp[p].op = "myUrls"
        /\ resp[p].data.page = 2 /\ resp[p].data.limit = 2
        /\ resp[p].data.search = Absent
        /\ resp[p].data.sortBy = "clicks" /\ resp[p].data.sortOrder = "desc"
        /\ resp[p].data.pagination.totalUrls = 3
        /\ resp[p].data.pagination.totalPages = 2
        /\ Len(resp[p].data.urls) = 1
        /\ ~resp[p].data.pagination.hasNext /\ resp[p].data.pagination.hasPrev
        /\ Cardinality(OwnedBy("u1")) = 3 /\ OwnedBy("u2") # {}
        /\ \E d \in OwnedBy("u1") :
              /\ resp[p].data.urls[1] = WithoutHistory(store[d])
              /\ \A e \in OwnedBy("u1") :
                    \/ store[e].clicks > store[d].clicks
                    \/ store[e].clicks = store[d].clicks /\ e <= d
              /\ \E e \in OwnedBy("u1") : store[e].clicks > store[d].clicks

-----------------------------------------------------------------------------
(* Properties of the statistics of one record (SpecStats) *)

\* C30: in the statistics of a record the click counts grouped by country
\* add up to the length of the stored history, which is min(clicks, 100);
\* for a record with more than 100 clicks they add up to less than its
\* click counter
C30_GroupsSumToHistory ==
    [][\A p \in Procs :
         pc[p] = "idle" /\ pc'[p] = "done"
         /\ resp'[p].op = "statsUrl" /\ resp'[p].status = 200
         => \A url \in {store[resp'[p].url[1]._id]} :
            \A groups \in {resp'[p].data.clicksByCountry} :
            \A total \in {SumGroups(groups, DOMAIN groups)} :
               /\ total = Len(url.clickHistory)
               /\ total = (IF url.clicks < HistoryCap THEN url.clicks ELSE HistoryCap)
               /\ resp'[p].data.clicks = url.clicks
               /\ url.clicks > HistoryCap => total < resp'[p].data.clicks
               /\ \A c \in DOMAIN groups :
                    groups[c] = Cardinality({i \in 1..Len(url.clickHistory) :
                                               url.clickHistory[i].country = c})]_vars

\* the statistics of a record with more than 100 clicks from two countries:
\* the two counts add up to 100
C30_Witness ==
    \E p \in Procs :
        /\ resp[p].op = "statsUrl" /\ resp[p].status = 200
        /\ resp[p].data.clicks > HistoryCap
        /\ Cardinality(DOMAIN resp[p].data.clicksByCountry) = 2
        /\ SumGroups(resp[p].data.clicksByCountry, DOMAIN resp[p].data.clicksByCountry)
             = HistoryCap

-----------------------------------------------------------------------------
(* Properties of a code deleted and taken again (SpecReuse) *)

\* C26: a successful delete leaves no record with the deleted code; while
\* none is stored a redirect for the code is answered 404 and a shorten
\* request with it as custom code passes the check and is answered 201;
\* records enter the store only through such an insert, and the save of a
\* redirect that loaded a record deleted since is answered 500 and stores nothing
C26_DeletedCodeFree ==
    [][/\ \A p \in Procs :
            /\ pc[p] = "idle" /\ pc'[p] = "done"
            /\ resp'[p].op = "delete" /\ resp'[p].status = 200
            => \A d \in DOMAIN store' : store'[d].shortCode # resp'[p].url[1].shortCode
       /\ \A p \in Procs :
            /\ pc[p] = "idle" /\ pc'[p] = "done" /\ resp'[p].op = "redirect"
            /\ \A d \in DOMAIN store : store[d].shortCode # resp'[p].code
            => resp'[p].status = 404
       /\ \A p \in Procs :
            /\ pc[p] \in {"checkCustom", "insert"} /\ pc'[p] # pc[p]
            /\ \A d \in DOMAIN store : store[d].shortCode # loc[p].shortCode
            => IF pc[p] = "checkCustom" THEN pc'[p] = "insert"
               ELSE resp'[p].status = 201 /\ store'[nextId].shortCode = loc[p].shortCode
       /\ \A d \in DOMAIN store' \ DOMAIN store :
            \E p \in Procs : pc[p] = "insert" /\ resp'[p].status = 201 /\ d = nextId
       /\ \A p \in Procs :
            pc[p] = "addClick" /\ pc'[p] = "done" /\ loc[p].url._id \notin DOMAIN store
            => resp'[p].status = 500 /\ store' = store]_vars

\* the code was deleted and taken again: the second record is stored with
\* clicks = 0, and a redirect that had loaded the first record was answered 500
C26_Witness ==
    \E p \in Procs :
        /\ resp[p].op = "redirect" /\ resp[p].status = 500
        /\ resp[p].url[1]._id = 1
        /\ DOMAIN store = {2}
        /\ store[2].shortCode = resp[p].code
        /\ store[2].clicks = 0 /\ store[2].clickHistory = <<>>

-----------------------------------------------------------------------------
(* Properties of the click history (SpecHist) *)

\* C4: a stored click history has at most 100 entries and holds the most
\* recent min(k, 100) of the k clicks saved, in the order they were saved
C4_HistoryBounded ==
    \A d \in DOMAIN store :
        /\ Len(store[d].clickHistory) <= HistoryCap
        /\ store[d].clickHistory = SliceLast(arrivals[d], HistoryCap)

-----------------------------------------------------------------------------
(* Properties of the document methods (SpecAcc) *)

\* C7: isAccessible() is true exactly when the record is active, has no
\* expiresAt or one not before the current time, and has no maxClicks or
\* clicks below it
C7_AccessibleIff ==
    probe.verdict # Absent =>
        (probe.verdict[1] <=>
            /\ probe.url.isActive
            /\ (probe.url.expiresAt = Absent \/ ~(now > probe.url.expiresAt[1]))
            /\ (probe.url.maxClicks = Absent \/ probe.url.clicks < probe.url.maxClicks[1]))

-----------------------------------------------------------------------------
(* Properties of the generator (SpecGen) *)

Alnum ==
    { "A","B","C","D","E","F","G","H","I","J","K","L","M","N","O","P","Q","R","S",
      "T","U","V","W","X","Y","Z",
      "a","b","c","d","e","f","g","h","i","j","k","l","m","n","o","p","q","r","s",
      "t","u","v","w","x","y","z",
      "0","1","2","3","4","5","6","7","8","9" }

\* C9: both generators return exactly `length` characters (6 by default),
\* each one of the 62 characters A-Z, a-z, 0-9
C9_LengthAndAlphabet ==
    /\ Cardinality(Alnum) = Len(chars)
    /\ gen.returned =>
        /\ Len(gen.result) = gen.length
        /\ \A i \in 1..Len(gen.result) : gen.result[i] \in Alnum

\* a default-length call of generateShortCode whose draws were all the highest
C9_Witness ==
    /\ gen.returned
    /\ gen.variant = "plain"
    /\ gen.length = DefaultLength
    /\ gen.result = <<"9", "9", "9", "9", "9", "9">>

====
